---------------------------- MODULE Spec2Model ----------------------------
(***************************************************************************)
(* A model of wxJSONReader (src/jsonreader.cpp): the lenient JSON parser.  *)
(*                                                                         *)
(* The reader is a record of the class's data members (m_flags, m_lineNo,  *)
(* m_errors, ...) plus the call stack of the recursive DoRead(): one frame *)
(* per active DoRead() holding its locals (key, value, ch).  The `parent'  *)
(* argument of a frame is a C++ reference to the caller's `value' (to the  *)
(* root for the outermost frame) and is modelled as that alias.            *)
(*                                                                         *)
(* Bytes are integers (their code), -1 is the EOF indicator of ReadChar(). *)
(* Every function of the source is an operator from a reader record to the *)
(* reader record it leaves behind; a function's int result is left in the  *)
(* field `ch'.  One action is one iteration of the dispatch loops of       *)
(* GetStart() and DoRead().                                                *)
(***************************************************************************)
EXTENDS Integers, Sequences, FiniteSets, TLC

VARIABLES
    input,      \* the bytes of the document given to Parse()
    rd          \* the wxJSONReader, its stream `is' and the value `*val' it fills

vars == <<input, rd>>

-----------------------------------------------------------------------------
(* Byte codes of the characters the source names.                          *)
BS == 8
TAB == 9
LF == 10
FF == 12
CR == 13
SP == 32
DQUOTE == 34
SQUOTE == 39
STAR == 42
PLUS == 43
COMMA == 44
MINUS == 45
SLASH == 47
DIGIT0 == 48
DIGIT9 == 57
COLON == 58
LBRACKET == 91
BACKSLASH == 92
RBRACKET == 93
LBRACE == 123
RBRACE == 125
EOFCH == -1

(* unsigned char c = (unsigned char) ch  *)
UChar(ch) == ch % 256

(* Text of the source's string literals, as byte sequences. *)
S_null == <<110, 117, 108, 108>>
S_true == <<116, 114, 117, 101>>
S_false == <<102, 97, 108, 115, 101>>
S_slashslash == <<47, 47>>
S_slashstar == <<47, 42>>
S_starslash == <<42, 47>>
S_utf8invalid == <<60, 85, 84, 70, 45, 56, 62>>

ToLower(c) == IF c >= 65 /\ c <= 90 THEN c + 32 ELSE c

(* wxString::CmpNoCase(...) == 0 *)
CmpNoCaseEq(s, t) ==
    /\ Len(s) = Len(t)
    /\ \A i \in 1..Len(s) : ToLower(s[i]) = ToLower(t[i])

-----------------------------------------------------------------------------
(* The flag bits of the constructor's `flags' argument, by name: a flag    *)
(* set is the set of the bits that are on.                                 *)
STRICT == {}
TOLERANT == {"ALLOW_COMMENTS", "CASE", "MISSING", "MULTISTRING"}
ToleranceFlags == {"ALLOW_COMMENTS", "CASE", "MISSING", "MULTISTRING", "MEMORYBUFF"}

-----------------------------------------------------------------------------
(* wxJSONValue, the value container.  Every value is a record of the same  *)
(* shape: kind, the scalar payload (num for Bool/Int/UInt, str for String, *)
(* MemBuf and the text of a Double), the array items, the object members   *)
(* (a function from key to value), the line number and the comments.       *)
JInvalid ==
    [kind |-> "Invalid", num |-> 0, str |-> <<>>, items |-> <<>>,
     members |-> <<>>, lineNo |-> -1, comments |-> <<>>]

IsValid(v) == v.kind # "Invalid"
IsObject(v) == v.kind = "Object"
IsArray(v) == v.kind = "Array"
IsString(v) == v.kind = "String"
IsMemoryBuff(v) == v.kind = "MemBuf"

(* SetType keeps the content when the type does not change, and always     *)
(* keeps the comments and the line number.                                 *)
SetType(v, k) ==
    IF v.kind = k THEN v
    ELSE [v EXCEPT !.kind = k, !.num = 0, !.str = <<>>, !.items = <<>>, !.members = <<>>]

SetLineNo(v, n) == [v EXCEPT !.lineNo = n]
ClearComments(v) == [v EXCEPT !.comments = <<>>]
AddComment(v, text, position) ==
    [v EXCEPT !.comments = Append(@, [text |-> text, pos |-> position])]

(* val = s; val = i64; val = true; ... : the type and the payload change *)
AssignScalar(v, k, n, s) == [SetType(v, k) EXCEPT !.kind = k, !.num = n, !.str = s]

(* val.Cat( s ) *)
Cat(v, s) == [v EXCEPT !.str = @ \o s]

(* parent[key] = value *)
SetMember(p, key, v) ==
    [p EXCEPT !.members =
        [k \in (DOMAIN p.members) \cup {key} |-> IF k = key THEN v ELSE p.members[k]]]

(* parent.Append( value ) *)
AppendItem(p, v) == [p EXCEPT !.items = Append(@, v)]


-----------------------------------------------------------------------------
(* DiagnosticsSink: m_errors and m_warnings.  A message is the record of   *)
(* what the format "Error: line %d, col %d - %s" prints; the two "too many" *)
(* sentinels carry no position.                                            *)
Msg(sev, r, msg, arg) ==
    [sev |-> sev, line |-> r.lineNo, col |-> r.colNo, msg |-> msg, arg |-> arg]

TooManyErrors ==
    [sev |-> "ERROR", line |-> 0, col |-> 0,
     msg |-> "too many error messages - ignoring further errors", arg |-> <<>>]

TooManyWarnings ==
    [sev |-> "Error", line |-> 0, col |-> 0,
     msg |-> "too many warning messages - ignoring further warnings", arg |-> <<>>]

(* AddError with the last branch taken for every full list: the sentinel  *)
(* is appended again on each further call                                  *)
AddErrorRepeatSentinel(r, msg, arg) ==
    IF Len(r.errors) < r.maxErrors
    THEN [r EXCEPT !.errors = Append(@, Msg("Error", r, msg, arg))]
    ELSE [r EXCEPT !.errors = Append(@, TooManyErrors)]

AddErrorArg(r, msg, arg) ==
    IF Len(r.errors) < r.maxErrors
    THEN [r EXCEPT !.errors = Append(@, Msg("Error", r, msg, arg))]
    ELSE IF Len(r.errors) = r.maxErrors
    THEN [r EXCEPT !.errors = Append(@, TooManyErrors)]
    ELSE r

AddError(r, msg) == AddErrorArg(r, msg, <<>>)

(* AddWarning without the test of the flags: the message is a warning     *)
(* whatever the extension it is about                                      *)
AddWarningNeverError(r, type, msg) ==
    IF Len(r.warnings) < r.maxErrors
    THEN [r EXCEPT !.warnings = Append(@, Msg("Warning", r, msg, <<>>))]
    ELSE IF Len(r.warnings) = r.maxErrors
    THEN [r EXCEPT !.warnings = Append(@, TooManyWarnings)]
    ELSE r

(* AddWarning without the test of m_maxErrors *)
AddWarningUnbounded(r, type, msg) ==
    IF type # "" /\ type \notin r.flags
    THEN AddError(r, msg)
    ELSE [r EXCEPT !.warnings = Append(@, Msg("Warning", r, msg, <<>>))]

AddWarning(r, type, msg) ==
    IF type # "" /\ type \notin r.flags
    THEN AddError(r, msg)
    ELSE IF Len(r.warnings) < r.maxErrors
    THEN [r EXCEPT !.warnings = Append(@, Msg("Warning", r, msg, <<>>))]
    ELSE IF Len(r.warnings) = r.maxErrors
    THEN [r EXCEPT !.warnings = Append(@, TooManyWarnings)]
    ELSE r

-----------------------------------------------------------------------------
(* ByteSource.  r.is holds the bytes of the stream, r.pos of them have been *)
(* consumed.                                                               *)
StreamEof(r) == r.pos >= Len(r.is)

PeekChar(r) ==
    IF ~StreamEof(r) THEN [r EXCEPT !.ch = r.is[r.pos + 1]]
    ELSE [r EXCEPT !.ch = EOFCH]

(* ReadChar that counts the CR of a CR+LF as a column of the new line *)
ReadCharKeepsColumn(r) ==
    IF StreamEof(r) THEN [r EXCEPT !.ch = EOFCH]
    ELSE LET c == r.is[r.pos + 1]
             r1 == [r EXCEPT !.pos = @ + 1]
         IN IF c = CR
            THEN LET r2 == [r1 EXCEPT !.colNo = 1]
                     nextChar == PeekChar(r2).ch
                 IN IF nextChar = EOFCH THEN [r2 EXCEPT !.ch = EOFCH]
                    ELSE IF nextChar = LF
                    THEN [r2 EXCEPT !.pos = @ + 1, !.lineNo = @ + 1, !.colNo = 2, !.ch = LF]
                    ELSE [r2 EXCEPT !.colNo = @ + 1, !.ch = CR]
            ELSE IF c = LF
            THEN [r1 EXCEPT !.lineNo = @ + 1, !.colNo = 1, !.ch = LF]
            ELSE [r1 EXCEPT !.colNo = @ + 1, !.ch = c]

ReadChar(r) ==
    IF StreamEof(r) THEN [r EXCEPT !.ch = EOFCH]
    ELSE LET c == r.is[r.pos + 1]
             r1 == [r EXCEPT !.pos = @ + 1]
         IN IF c = CR
            THEN LET r2 == [r1 EXCEPT !.colNo = 1]
                     nextChar == PeekChar(r2).ch
                 IN IF nextChar = EOFCH THEN [r2 EXCEPT !.ch = EOFCH]
                    ELSE IF nextChar = LF
                    THEN [r2 EXCEPT !.pos = @ + 1, !.lineNo = @ + 1, !.colNo = 1, !.ch = LF]
                    ELSE [r2 EXCEPT !.colNo = @ + 1, !.ch = CR]
            ELSE IF c = LF
            THEN [r1 EXCEPT !.lineNo = @ + 1, !.colNo = 1, !.ch = LF]
            ELSE [r1 EXCEPT !.colNo = @ + 1, !.ch = c]

RECURSIVE SkipWhiteSpace(_)
SkipWhiteSpace(r) ==
    LET n == ReadChar(r)
    IN IF n.ch < 0 THEN n
       ELSE IF n.ch = SP \/ n.ch = LF \/ n.ch = TAB THEN SkipWhiteSpace(n)
       ELSE n

-----------------------------------------------------------------------------
(* wxConvUTF8 / wxString::FromUTF8: the UTF-8 well-formedness of a buffer. *)
IsCont(b) == b >= 128 /\ b <= 191

RECURSIVE IsValidUTF8(_)
IsValidUTF8(b) ==
    IF b = <<>> THEN TRUE
    ELSE LET c == b[1]
             n == IF c < 128 THEN 1
                  ELSE IF c >= 194 /\ c <= 223 THEN 2
                  ELSE IF c >= 224 /\ c <= 239 THEN 3
                  ELSE IF c >= 240 /\ c <= 244 THEN 4
                  ELSE 0
         IN /\ n > 0
            /\ Len(b) >= n
            /\ \A i \in 2..n : IsCont(b[i])
            /\ IsValidUTF8(SubSeq(b, n + 1, Len(b)))

FromUTF8(b) == IF IsValidUTF8(b) THEN b ELSE <<>>

(* the UTF-8 encoding of one 16-bit code unit *)
EncodeUTF8(cp) ==
    IF cp < 128 THEN <<cp>>
    ELSE IF cp < 2048 THEN <<192 + (cp \div 64), 128 + (cp % 64)>>
    ELSE <<224 + (cp \div 4096), 128 + ((cp \div 64) % 64), 128 + (cp % 64)>>

-----------------------------------------------------------------------------
(* CommentScanner.  The loops of SkipComment, each from the state at the    *)
(* top of an iteration (r.ch is the local ch, r.buf is utf8Buff).          *)
WarnComments == "Comments may be tolerated in JSON text but they are not part of JSON syntax"

RECURSIVE LineCommentLoop(_)
LineCommentLoop(r) ==
    IF r.ch < 0 THEN r
    ELSE IF r.ch = LF THEN r
    ELSE IF r.ch = CR
    THEN LET p == PeekChar(r) IN IF p.ch = LF THEN ReadChar(p) ELSE p
    ELSE LineCommentLoop(ReadChar([r EXCEPT !.buf = Append(@, UChar(r.ch))]))

RECURSIVE BlockCommentLoop(_)
BlockCommentLoop(r) ==
    IF r.ch < 0 THEN r
    ELSE IF r.ch = STAR
    THEN LET p == PeekChar(r)
         IN IF p.ch = SLASH
            THEN [ReadChar(ReadChar(p)) EXCEPT !.buf = p.buf \o S_starslash]
            ELSE BlockCommentLoop(ReadChar([p EXCEPT !.buf = Append(@, UChar(p.ch))]))
    ELSE BlockCommentLoop(ReadChar([r EXCEPT !.buf = Append(@, UChar(r.ch))]))

RECURSIVE StraySlashLoop(_)
StraySlashLoop(r) ==
    IF r.ch < 0 THEN r
    ELSE LET n == ReadChar(r)
         IN IF n.ch = STAR /\ PeekChar(n).ch = SLASH THEN n
            ELSE IF n.ch = LF THEN n
            ELSE StraySlashLoop(n)

SkipComment(r) ==
    LET r1 == ReadChar(r)
    IN IF r1.ch < 0 THEN [r1 EXCEPT !.ch = EOFCH]
       ELSE IF r1.ch = SLASH
       THEN LET w == AddWarning(r1, "ALLOW_COMMENTS", WarnComments)
                l == LineCommentLoop([w EXCEPT !.commentLine = w.lineNo, !.buf = S_slashslash])
            IN [l EXCEPT !.comment = FromUTF8(l.buf), !.buf = <<>>]
       ELSE IF r1.ch = STAR
       THEN LET w == AddWarning(r1, "ALLOW_COMMENTS", WarnComments)
                l == BlockCommentLoop([w EXCEPT !.commentLine = w.lineNo, !.buf = S_slashstar])
            IN [l EXCEPT !.comment = IF l.noUtf8 THEN l.buf ELSE FromUTF8(l.buf),
                         !.buf = <<>>]
       ELSE ReadChar(StraySlashLoop(
                AddError(r1, "Strange '/' (did you want to insert a comment?)")))

-----------------------------------------------------------------------------
(* The three cursor hints m_current, m_next, m_lastStored are pointers to   *)
(* wxJSONValue objects.  A pointer is null, or the address of the `value'   *)
(* local of frame d (d = 0: the root *val), or of the element last stored   *)
(* in that value (under `key' in an object, at `index' in an array).       *)
NullRef == [k |-> "none", d |-> 0, key |-> <<>>, index |-> 0]
ValueRef(d) == [k |-> "value", d |-> d, key |-> <<>>, index |-> 0]
MemberRef(d, key) == [k |-> "last", d |-> d, key |-> key, index |-> 0]
ItemRef(d, index) == [k |-> "last", d |-> d, key |-> <<>>, index |-> index]

Depth(r) == Len(r.stack)
SlotValue(r, d) == IF d = 0 THEN r.root ELSE r.stack[d].value
SetSlot(r, d, v) ==
    IF d = 0 THEN [r EXCEPT !.root = v] ELSE [r EXCEPT !.stack[d].value = v]

Deref(r, ref) ==
    LET c == SlotValue(r, ref.d)
    IN IF ref.k = "value" THEN c
       ELSE IF IsObject(c) THEN c.members[ref.key]
       ELSE c.items[ref.index]

SetRef(r, ref, v) ==
    LET c == SlotValue(r, ref.d)
    IN IF ref.k = "value" THEN SetSlot(r, ref.d, v)
       ELSE IF IsObject(c) THEN SetSlot(r, ref.d, [c EXCEPT !.members[ref.key] = v])
       ELSE SetSlot(r, ref.d, [c EXCEPT !.items[ref.index] = v])

(* the locals of the running DoRead() and its `parent' argument *)
Top(r) == r.stack[Depth(r)]
ParentRef(r) == ValueRef(Depth(r) - 1)
Parent(r) == SlotValue(r, Depth(r) - 1)
Value(r) == Top(r).value
SetValue(r, v) == [r EXCEPT !.stack[Depth(r)].value = v]

-----------------------------------------------------------------------------
(* CommentAttacher *)
AttachComment(r, ref, position) ==
    SetRef(r, ref, AddComment(Deref(r, ref), r.comment, position))

LineMatches(r, ref) == ref.k # "none" /\ Deref(r, ref).lineNo = r.commentLine

(* StoreComment without the tests of the lines *)
StoreCommentNoLineTest(r, parent) ==
    IF "STORE_COMMENTS" \notin r.flags THEN [r EXCEPT !.comment = <<>>]
    ELSE LET r1 ==
               IF "COMMENTS_AFTER" \in r.flags
               THEN IF r.current.k # "none"
                    THEN IF r.current = parent \/ ~IsValid(Deref(r, r.current))
                         THEN AddError(r, "Cannot find a value for storing the comment (flag AFTER)")
                         ELSE AttachComment(r, r.current, "After")
                    ELSE IF r.lastStored.k # "none"
                    THEN AttachComment(r, r.lastStored, "After")
                    ELSE AddError(r, "Cannot find a value for storing the comment (flag AFTER)")
               ELSE IF r.next.k # "none"
                    THEN AttachComment(r, r.next, "Before")
                    ELSE AddError(r, "Cannot find a value for storing the comment (flag BEFORE)")
         IN [r1 EXCEPT !.comment = <<>>]

StoreComment(r, parent) ==
    IF "STORE_COMMENTS" \notin r.flags THEN [r EXCEPT !.comment = <<>>]
    ELSE IF LineMatches(r, r.current)
    THEN [AttachComment(r, r.current, "Inline") EXCEPT !.comment = <<>>]
    ELSE IF LineMatches(r, r.next)
    THEN [AttachComment(r, r.next, "Inline") EXCEPT !.comment = <<>>]
    ELSE IF LineMatches(r, r.lastStored)
    THEN [AttachComment(r, r.lastStored, "Inline") EXCEPT !.comment = <<>>]
    ELSE LET r1 ==
               IF "COMMENTS_AFTER" \in r.flags
               THEN IF r.current.k # "none"
                    THEN IF r.current = parent \/ ~IsValid(Deref(r, r.current))
                         THEN AddError(r, "Cannot find a value for storing the comment (flag AFTER)")
                         ELSE AttachComment(r, r.current, "After")
                    ELSE IF r.lastStored.k # "none"
                    THEN AttachComment(r, r.lastStored, "After")
                    ELSE AddError(r, "Cannot find a value for storing the comment (flag AFTER)")
               ELSE IF r.next.k # "none"
                    THEN AttachComment(r, r.next, "Before")
                    ELSE AddError(r, "Cannot find a value for storing the comment (flag BEFORE)")
         IN [r1 EXCEPT !.comment = <<>>]

(* StoreValue that inserts a member whose key is empty *)
StoreValueCasesAnyKey(r0, ch) ==
    LET d == Depth(r0)
        key == Top(r0).key
        value == Value(r0)
        parent == Parent(r0)
    IN IF ~IsValid(value) /\ key = <<>>
       THEN IF ch = RBRACE \/ ch = RBRACKET
            THEN r0
            ELSE AddError(r0, "key or value is missing for JSON value")
       ELSE IF IsObject(parent)
       THEN IF ~IsValid(value)
            THEN AddError(r0, "cannot store the value: 'value' is missing for JSON object type")
            ELSE [SetSlot(r0, d - 1, SetMember(parent, key, SetLineNo(value, r0.lineNo)))
                     EXCEPT !.lastStored = MemberRef(d - 1, key)]
       ELSE IF IsArray(parent)
       THEN LET e1 == IF ~IsValid(value)
                      THEN AddError(r0, "cannot store the item: 'value' is missing for JSON array type")
                      ELSE r0
                e2 == IF key # <<>>
                      THEN AddErrorArg(e1, "cannot store the item: 'key' ('%s') is not permitted in JSON array type", key)
                      ELSE e1
            IN [SetSlot(e2, d - 1, AppendItem(parent, SetLineNo(value, e2.lineNo)))
                   EXCEPT !.lastStored = ItemRef(d - 1, Len(parent.items) + 1)]
       ELSE r0

(* StoreValue that accepts an empty element when a tolerance flag is set *)
StoreValueCasesTolerant(r0, ch) ==
    LET d == Depth(r0)
        key == Top(r0).key
        value == Value(r0)
        parent == Parent(r0)
    IN IF ~IsValid(value) /\ key = <<>>
       THEN IF ch = RBRACE \/ ch = RBRACKET \/ r0.flags \cap ToleranceFlags # {}
            THEN r0
            ELSE AddError(r0, "key or value is missing for JSON value")
       ELSE IF IsObject(parent)
       THEN IF ~IsValid(value)
            THEN AddError(r0, "cannot store the value: 'value' is missing for JSON object type")
            ELSE IF key = <<>>
            THEN AddError(r0, "cannot store the value: 'key' is missing for JSON object type")
            ELSE [SetSlot(r0, d - 1, SetMember(parent, key, SetLineNo(value, r0.lineNo)))
                     EXCEPT !.lastStored = MemberRef(d - 1, key)]
       ELSE IF IsArray(parent)
       THEN LET e1 == IF ~IsValid(value)
                      THEN AddError(r0, "cannot store the item: 'value' is missing for JSON array type")
                      ELSE r0
                e2 == IF key # <<>>
                      THEN AddErrorArg(e1, "cannot store the item: 'key' ('%s') is not permitted in JSON array type", key)
                      ELSE e1
            IN [SetSlot(e2, d - 1, AppendItem(parent, SetLineNo(value, e2.lineNo)))
                   EXCEPT !.lastStored = ItemRef(d - 1, Len(parent.items) + 1)]
       ELSE r0

(* StoreValue that wants a key or a value before a closer as well *)
StoreValueCasesNeedsValue(r0, ch) ==
    LET d == Depth(r0)
        key == Top(r0).key
        value == Value(r0)
        parent == Parent(r0)
    IN IF ~IsValid(value) /\ key = <<>>
       THEN AddError(r0, "key or value is missing for JSON value")
       ELSE IF IsObject(parent)
       THEN IF ~IsValid(value)
            THEN AddError(r0, "cannot store the value: 'value' is missing for JSON object type")
            ELSE IF key = <<>>
            THEN AddError(r0, "cannot store the value: 'key' is missing for JSON object type")
            ELSE [SetSlot(r0, d - 1, SetMember(parent, key, SetLineNo(value, r0.lineNo)))
                     EXCEPT !.lastStored = MemberRef(d - 1, key)]
       ELSE IF IsArray(parent)
       THEN LET e1 == IF ~IsValid(value)
                      THEN AddError(r0, "cannot store the item: 'value' is missing for JSON array type")
                      ELSE r0
                e2 == IF key # <<>>
                      THEN AddErrorArg(e1, "cannot store the item: 'key' ('%s') is not permitted in JSON array type", key)
                      ELSE e1
            IN [SetSlot(e2, d - 1, AppendItem(parent, SetLineNo(value, e2.lineNo)))
                   EXCEPT !.lastStored = ItemRef(d - 1, Len(parent.items) + 1)]
       ELSE r0

-----------------------------------------------------------------------------
(* StoreValue( ch, key, value, parent ) for the running frame: its if /    *)
(* else-if chain on the reader r0 after the assignments at its top         *)
StoreValueCases(r0, ch) ==
    LET d == Depth(r0)
        key == Top(r0).key
        value == Value(r0)
        parent == Parent(r0)
    IN IF ~IsValid(value) /\ key = <<>>
       THEN IF ch = RBRACE \/ ch = RBRACKET
            THEN r0
            ELSE AddError(r0, "key or value is missing for JSON value")
       ELSE IF IsObject(parent)
       THEN IF ~IsValid(value)
            THEN AddError(r0, "cannot store the value: 'value' is missing for JSON object type")
            ELSE IF key = <<>>
            THEN AddError(r0, "cannot store the value: 'key' is missing for JSON object type")
            ELSE [SetSlot(r0, d - 1, SetMember(parent, key, SetLineNo(value, r0.lineNo)))
                     EXCEPT !.lastStored = MemberRef(d - 1, key)]
       ELSE IF IsArray(parent)
       THEN LET e1 == IF ~IsValid(value)
                      THEN AddError(r0, "cannot store the item: 'value' is missing for JSON array type")
                      ELSE r0
                e2 == IF key # <<>>
                      THEN AddErrorArg(e1, "cannot store the item: 'key' ('%s') is not permitted in JSON array type", key)
                      ELSE e1
            IN [SetSlot(e2, d - 1, AppendItem(parent, SetLineNo(value, e2.lineNo)))
                   EXCEPT !.lastStored = ItemRef(d - 1, Len(parent.items) + 1)]
       ELSE r0

StoreValue(r, ch) ==
    [StoreValueCases([r EXCEPT !.current = NullRef, !.next = ValueRef(Depth(r)),
                               !.lastStored = NullRef,
                               !.stack[Depth(r)].value = SetLineNo(@, -1)], ch)
        EXCEPT !.stack[Depth(r)].value = ClearComments(SetType(@, "Invalid"))]

-----------------------------------------------------------------------------
(* StringDecoder *)
IsHexDigit(c) == (c >= 48 /\ c <= 57) \/ (c >= 65 /\ c <= 70) \/ (c >= 97 /\ c <= 102)
HexVal(c) == IF c <= 57 THEN c - 48 ELSE IF c <= 70 THEN c - 55 ELSE c - 87
IsScanSpace(c) == c = SP \/ (c >= TAB /\ c <= CR)

(* ReadUES: four ReadChar() calls; r.buf gets the bytes, r.ch is 0 or -1 *)
RECURSIVE ReadUESLoop(_, _)
ReadUESLoop(r, i) ==
    IF i >= 4 THEN [r EXCEPT !.ch = 0]
    ELSE LET n == ReadChar(r)
         IN IF n.ch < 0 THEN n
            ELSE ReadUESLoop([n EXCEPT !.buf = Append(@, UChar(n.ch))], i + 1)

ReadUES(r) == ReadUESLoop([r EXCEPT !.buf = <<>>], 0)

(* sscanf( uesBuffer, "%lx", &l ): white space is skipped, then the longest *)
(* run of hex digits is converted; the result is <<1, l>> or <<0, 0>> when  *)
(* no digit is found.  The buffer is a C string: it ends at the first NUL.  *)
RECURSIVE HexRun(_, _, _)
HexRun(b, i, acc) ==
    IF i > Len(b) \/ ~IsHexDigit(b[i]) THEN acc
    ELSE HexRun(b, i + 1, acc * 16 + HexVal(b[i]))

RECURSIVE SkipScanSpace(_, _)
SkipScanSpace(b, i) ==
    IF i <= Len(b) /\ IsScanSpace(b[i]) THEN SkipScanSpace(b, i + 1) ELSE i

ScanHex(b) ==
    LET i == SkipScanSpace(b, 1)
    IN IF i <= Len(b) /\ IsHexDigit(b[i]) THEN <<1, HexRun(b, i, 0)>> ELSE <<0, 0>>

(* AppendUES( utf8Buff, uesBuffer ): ues is the buffer ReadUES filled *)
AppendUES(r, utf8Buff, ues) ==
    LET sc == ScanHex(ues)
    IN IF sc[1] # 1
       THEN [AddError(r, "Invalid Unicode Escaped Sequence") EXCEPT !.buf = utf8Buff]
       ELSE [r EXCEPT !.buf = utf8Buff \o EncodeUTF8(sc[2])]

EscapeByte(ch) ==
    IF ch = 116 THEN TAB
    ELSE IF ch = 110 THEN LF
    ELSE IF ch = 98 THEN BS
    ELSE IF ch = 114 THEN CR
    ELSE IF ch = 102 THEN FF
    ELSE ch

IsSimpleEscape(ch) ==
    ch \in {116, 110, 98, 114, DQUOTE, BACKSLASH, SLASH, 102}

(* The while loop of ReadString, from the top of an iteration.  r.buf is    *)
(* utf8Buff; r.abort is set when the function returns from inside the loop *)
RECURSIVE ReadStringLoop(_)
ReadStringLoop(r) ==
    IF r.ch < 0 THEN r
    ELSE LET n == ReadChar(r)
             c == UChar(n.ch)
         IN IF n.ch = BACKSLASH
            THEN LET e == ReadChar(n)
                 IN IF e.ch = EOFCH THEN ReadStringLoop(e)
                    ELSE IF IsSimpleEscape(e.ch)
                    THEN ReadStringLoop([e EXCEPT !.buf = Append(@, EscapeByte(e.ch))])
                    ELSE IF e.ch = 117
                    THEN LET u == ReadUES(e)
                         IN IF u.ch < 0 THEN [u EXCEPT !.abort = TRUE, !.buf = <<>>]
                            ELSE ReadStringLoop(AppendUES(u, e.buf, u.buf))
                    ELSE ReadStringLoop(AddErrorArg(e, "Unknow escaped character '\\%c'", <<e.ch>>))
            ELSE IF n.ch = DQUOTE THEN n
            ELSE ReadStringLoop([n EXCEPT !.buf = Append(@, c)])

(* ReadString that replaces the string of the slot by the new one *)
ReadStringEndReplaces(l) ==
    IF l.abort THEN [l EXCEPT !.abort = FALSE]
    ELSE
    LET c == IF l.noUtf8 THEN l
             ELSE IF ~IsValidUTF8(l.buf)
             THEN [AddError(l, "String value: the UTF-8 stream is invalid")
                      EXCEPT !.buf = S_utf8invalid]
             ELSE l
        s == c.buf
        val == Value(c)
        a == IF ~IsValid(val) THEN SetValue(c, AssignScalar(val, "String", 0, s))
             ELSE IF IsString(val)
             THEN SetValue(AddWarning(c, "MULTISTRING",
                               "Multiline strings are not allowed by JSON syntax"),
                           AssignScalar(val, "String", 0, s))
             ELSE AddErrorArg(c, "String value '%s' cannot follow another value", s)
        b == [SetValue(a, SetLineNo(Value(a), a.lineNo)) EXCEPT !.buf = <<>>]
    IN IF b.ch >= 0 THEN ReadChar(b) ELSE b

(* ReadString after its loop, on the reader l the loop left *)
ReadStringEnd(l) ==
    IF l.abort THEN [l EXCEPT !.abort = FALSE]
    ELSE
    LET c == IF l.noUtf8 THEN l
             ELSE IF ~IsValidUTF8(l.buf)
             THEN [AddError(l, "String value: the UTF-8 stream is invalid")
                      EXCEPT !.buf = S_utf8invalid]
             ELSE l
        s == c.buf
        val == Value(c)
        a == IF ~IsValid(val) THEN SetValue(c, AssignScalar(val, "String", 0, s))
             ELSE IF IsString(val)
             THEN SetValue(AddWarning(c, "MULTISTRING",
                               "Multiline strings are not allowed by JSON syntax"),
                           Cat(val, s))
             ELSE AddErrorArg(c, "String value '%s' cannot follow another value", s)
        b == [SetValue(a, SetLineNo(Value(a), a.lineNo)) EXCEPT !.buf = <<>>]
    IN IF b.ch >= 0 THEN ReadChar(b) ELSE b

ReadString(r) ==
    ReadStringEnd(ReadStringLoop([r EXCEPT !.ch = 0, !.buf = <<>>, !.abort = FALSE]))

-----------------------------------------------------------------------------
(* MemBufDecoder *)
HexAdjust(c) ==
    LET c1 == (c - DIGIT0) % 256
    IN IF c1 > 9 THEN (c1 - 7) % 256 ELSE c1

RECURSIVE ReadMemoryBuffLoop(_)
ReadMemoryBuffLoop(r) ==
    IF r.ch < 0 THEN r
    ELSE LET n1 == ReadChar(r)
         IN IF n1.ch < 0 \/ n1.ch = SQUOTE THEN n1
            ELSE LET n2 == ReadChar(n1)
                 IN IF n2.ch < 0 THEN n2
                    ELSE LET c1 == HexAdjust(UChar(n1.ch))
                             c2 == HexAdjust(UChar(n2.ch))
                         IN IF c1 > 15 \/ c2 > 15
                            THEN ReadMemoryBuffLoop([n2 EXCEPT !.cnt = @ + 1])
                            ELSE ReadMemoryBuffLoop(
                                   [n2 EXCEPT !.buf = Append(@, (c1 * 16 + c2) % 256)])

(* ReadMemoryBuff after its loop, on the reader l the loop left *)
ReadMemoryBuffEnd(l) ==
    LET e == IF l.cnt > 0
             THEN AddErrorArg(l, "the 'memory buffer' type contains %d invalid digits", <<l.cnt>>)
             ELSE l
        val == Value(e)
        a == IF ~IsValid(val) THEN SetValue(e, AssignScalar(val, "MemBuf", 0, e.buf))
             ELSE IF IsMemoryBuff(val) THEN SetValue(e, Cat(val, e.buf))
             ELSE AddError(e, "Memory buffer value cannot follow another value")
        b == [SetValue(a, SetLineNo(Value(a), a.lineNo)) EXCEPT !.buf = <<>>, !.cnt = 0]
    IN IF b.ch >= 0 THEN ReadChar(b) ELSE b

ReadMemoryBuff(r) ==
    ReadMemoryBuffEnd(ReadMemoryBuffLoop(
        [AddWarning(r, "MEMORYBUFF", "the 'memory buffer' type is not valid JSON text")
            EXCEPT !.ch = 0, !.buf = <<>>, !.cnt = 0]))

-----------------------------------------------------------------------------
(* NumberLiteralReader.  A 64-bit integer is held as the text of its        *)
(* decimal expansion (no leading zero, '-' in front of a negative value).  *)
IsDigit(c) == c >= DIGIT0 /\ c <= DIGIT9

ULongMaxText == <<49, 56, 52, 52, 54, 55, 52, 52, 48, 55, 51, 55, 48, 57, 53, 53, 49, 54, 49, 53>>
LLongMaxText == <<57, 50, 50, 51, 51, 55, 50, 48, 51, 54, 56, 53, 52, 55, 55, 53, 56, 48, 55>>
LLongMaxPlus1Text == <<57, 50, 50, 51, 51, 55, 50, 48, 51, 54, 56, 53, 52, 55, 55, 53, 56, 48, 56>>
ZeroText == <<48>>

RECURSIVE StripZeros(_)
StripZeros(t) ==
    IF Len(t) > 1 /\ t[1] = DIGIT0 THEN StripZeros(Tail(t))
    ELSE IF t = <<>> THEN ZeroText
    ELSE t

(* a > b for two decimal expansions without leading zeros *)
RECURSIVE TextGreater(_, _)
TextGreater(a, b) ==
    IF Len(a) # Len(b) THEN Len(a) > Len(b)
    ELSE IF a = <<>> THEN FALSE
    ELSE IF a[1] # b[1] THEN a[1] > b[1]
    ELSE TextGreater(Tail(a), Tail(b))

(* the for loop over str[index .. strLen-2] against uLongMax[j]: FALSE when *)
(* it returns false from DoStrto_ll                                        *)
RECURSIVE MagnitudeCheck(_, _, _)
MagnitudeCheck(str, i, j) ==
    IF i >= Len(str) - 1 THEN TRUE
    ELSE LET ch == str[i + 1]
         IN IF ~IsDigit(ch) THEN FALSE
            ELSE IF ch > ULongMaxText[j + 1] THEN FALSE
            ELSE IF ch < ULongMaxText[j + 1] THEN TRUE
            ELSE MagnitudeCheck(str, i + 1, j + 1)

(* temp1 = sum of digit * power10[exponent], modulo 2^64: the sum of at    *)
(* most 20 digits that passed MagnitudeCheck is below 2^64 + 10, and it    *)
(* reaches 2^64 only for 1844674407370955161d with d >= 6.                 *)
SumMod64(digits) ==
    IF /\ Len(digits) = 20
       /\ SubSeq(digits, 1, 19) = SubSeq(ULongMaxText, 1, 19)
       /\ digits[20] >= 54
    THEN <<digits[20] - 6>>
    ELSE StripZeros(digits)

(* DoStrto_ll that fails when no digit follows the sign *)
DoStrto_llNeedsDigit(str) ==
    LET strLen == Len(str)
        signed == strLen > 0 /\ (str[1] = PLUS \/ str[1] = MINUS)
        sign == IF signed THEN str[1] ELSE SP
        index == IF signed THEN 1 ELSE 0
        maxDigits == IF signed THEN 21 ELSE 20
        digits == SubSeq(str, index + 1, strLen)
    IN IF strLen = 0 THEN [ok |-> TRUE, ui64 |-> ZeroText, sign |-> SP]
       ELSE IF strLen > maxDigits THEN [ok |-> FALSE, ui64 |-> ZeroText, sign |-> sign]
       ELSE IF strLen = maxDigits /\ ~MagnitudeCheck(str, index, 0)
       THEN [ok |-> FALSE, ui64 |-> ZeroText, sign |-> sign]
       ELSE IF digits = <<>> \/ \E i \in 1..Len(digits) : ~IsDigit(digits[i])
       THEN [ok |-> FALSE, ui64 |-> ZeroText, sign |-> sign]
       ELSE [ok |-> TRUE, ui64 |-> SumMod64(digits), sign |-> sign]

DoStrto_ll(str) ==
    LET strLen == Len(str)
        signed == strLen > 0 /\ (str[1] = PLUS \/ str[1] = MINUS)
        sign == IF signed THEN str[1] ELSE SP
        index == IF signed THEN 1 ELSE 0
        maxDigits == IF signed THEN 21 ELSE 20
        digits == SubSeq(str, index + 1, strLen)
    IN IF strLen = 0 THEN [ok |-> TRUE, ui64 |-> ZeroText, sign |-> SP]
       ELSE IF strLen > maxDigits THEN [ok |-> FALSE, ui64 |-> ZeroText, sign |-> sign]
       ELSE IF strLen = maxDigits /\ ~MagnitudeCheck(str, index, 0)
       THEN [ok |-> FALSE, ui64 |-> ZeroText, sign |-> sign]
       ELSE IF \E i \in 1..Len(digits) : ~IsDigit(digits[i])
       THEN [ok |-> FALSE, ui64 |-> ZeroText, sign |-> sign]
       ELSE [ok |-> TRUE, ui64 |-> SumMod64(digits), sign |-> sign]

Strtoll(str) ==
    LET c == DoStrto_ll(str)
    IN IF ~c.ok THEN [ok |-> FALSE, val |-> ZeroText]
       ELSE IF c.sign = MINUS
       THEN IF TextGreater(c.ui64, LLongMaxPlus1Text) THEN [ok |-> FALSE, val |-> ZeroText]
            ELSE [ok |-> TRUE,
                  val |-> IF c.ui64 = ZeroText THEN ZeroText ELSE <<MINUS>> \o c.ui64]
       ELSE IF TextGreater(c.ui64, LLongMaxText) THEN [ok |-> FALSE, val |-> ZeroText]
            ELSE [ok |-> TRUE, val |-> c.ui64]

Strtoull(str) ==
    LET c == DoStrto_ll(str)
    IN IF c.sign = MINUS THEN [ok |-> FALSE, val |-> ZeroText]
       ELSE [ok |-> c.ok, val |-> c.ui64]

(* wxString::ToDouble: the whole token is a decimal floating literal        *)
(* [sign] digits [. digits] [e [sign] digits]  (at least one mantissa digit) *)
RECURSIVE DigitRun(_, _)
DigitRun(t, i) == IF i <= Len(t) /\ IsDigit(t[i]) THEN DigitRun(t, i + 1) ELSE i

ToDouble(t) ==
    LET i0 == IF Len(t) > 0 /\ (t[1] = PLUS \/ t[1] = MINUS) THEN 2 ELSE 1
        i1 == DigitRun(t, i0)
        dot == i1 <= Len(t) /\ t[i1] = 46
        i2 == IF dot THEN DigitRun(t, i1 + 1) ELSE i1
        mant == (i1 - i0) + (IF dot THEN i2 - i1 - 1 ELSE 0)
        exp == i2 <= Len(t) /\ (t[i2] = 101 \/ t[i2] = 69)
        i3 == IF exp /\ i2 + 1 <= Len(t) /\ (t[i2 + 1] = PLUS \/ t[i2 + 1] = MINUS)
              THEN i2 + 2 ELSE i2 + 1
        i4 == IF exp THEN DigitRun(t, i3) ELSE i2
    IN /\ mant > 0
       /\ exp => i4 > i3
       /\ i4 = Len(t) + 1

(* ReadToken( is, ch, s ): r.ch is nextCh, r.buf is s *)
IsTokenEnd(c) ==
    c \in {SP, COMMA, COLON, LBRACKET, RBRACKET, LBRACE, RBRACE, TAB, LF, CR, BS}

RECURSIVE ReadTokenLoop(_)
ReadTokenLoop(r) ==
    IF r.ch < 0 THEN r
    ELSE IF IsTokenEnd(r.ch) THEN r
    ELSE ReadTokenLoop(ReadChar([r EXCEPT !.buf = Append(@, UChar(r.ch))]))

ReadToken(r, ch) == ReadTokenLoop([r EXCEPT !.ch = ch, !.buf = <<>>])

LiteralIncorrect == "Literal '%s' is incorrect (did you forget quotes?)"

(* ReadValue that reads a token over a value the slot already holds *)
ReadValueTokenOverwrites(n, s, ch) ==
    LET val == Value(n)
        tSigned == ch # PLUS
        tUnsigned == ch # MINUS
        ll == Strtoll(s)
        ull == Strtoull(s)
    IN IF s = S_null THEN SetValue(n, SetType(val, "Null"))
       ELSE IF CmpNoCaseEq(s, S_null)
       THEN SetValue(AddWarning(n, "CASE", "the 'null' literal must be lowercase"),
                     SetType(val, "Null"))
       ELSE IF s = S_true THEN SetValue(n, AssignScalar(val, "Bool", 1, <<>>))
       ELSE IF CmpNoCaseEq(s, S_true)
       THEN SetValue(AddWarning(n, "CASE", "the 'true' literal must be lowercase"),
                     AssignScalar(val, "Bool", 1, <<>>))
       ELSE IF s = S_false THEN SetValue(n, AssignScalar(val, "Bool", 0, <<>>))
       ELSE IF CmpNoCaseEq(s, S_false)
       THEN SetValue(AddWarning(n, "CASE", "the 'false' literal must be lowercase"),
                     AssignScalar(val, "Bool", 0, <<>>))
       ELSE IF ~(IsDigit(ch) \/ ch = PLUS \/ ch = MINUS)
       THEN AddErrorArg(n, LiteralIncorrect, s)
       ELSE IF tSigned /\ ll.ok THEN SetValue(n, AssignScalar(val, "Int", 0, ll.val))
       ELSE IF tUnsigned /\ ull.ok THEN SetValue(n, AssignScalar(val, "UInt", 0, ull.val))
       ELSE IF ToDouble(s) THEN SetValue(n, AssignScalar(val, "Double", 0, s))
       ELSE AddErrorArg(n, LiteralIncorrect, s)

(* ReadValue with the unsigned conversion tried before the signed one *)
ReadValueTokenUnsignedFirst(n, s, ch) ==
    LET val == Value(n)
        tSigned == ch # PLUS
        tUnsigned == ch # MINUS
        ll == Strtoll(s)
        ull == Strtoull(s)
    IN IF IsValid(val)
       THEN AddErrorArg(n, "Value '%s' cannot follow a value: ',' or ':' missing?", s)
       ELSE IF s = S_null THEN SetValue(n, SetType(val, "Null"))
       ELSE IF CmpNoCaseEq(s, S_null)
       THEN SetValue(AddWarning(n, "CASE", "the 'null' literal must be lowercase"),
                     SetType(val, "Null"))
       ELSE IF s = S_true THEN SetValue(n, AssignScalar(val, "Bool", 1, <<>>))
       ELSE IF CmpNoCaseEq(s, S_true)
       THEN SetValue(AddWarning(n, "CASE", "the 'true' literal must be lowercase"),
                     AssignScalar(val, "Bool", 1, <<>>))
       ELSE IF s = S_false THEN SetValue(n, AssignScalar(val, "Bool", 0, <<>>))
       ELSE IF CmpNoCaseEq(s, S_false)
       THEN SetValue(AddWarning(n, "CASE", "the 'false' literal must be lowercase"),
                     AssignScalar(val, "Bool", 0, <<>>))
       ELSE IF ~(IsDigit(ch) \/ ch = PLUS \/ ch = MINUS)
       THEN AddErrorArg(n, LiteralIncorrect, s)
       ELSE IF tUnsigned /\ ull.ok THEN SetValue(n, AssignScalar(val, "UInt", 0, ull.val))
       ELSE IF tSigned /\ ll.ok THEN SetValue(n, AssignScalar(val, "Int", 0, ll.val))
       ELSE IF ToDouble(s) THEN SetValue(n, AssignScalar(val, "Double", 0, s))
       ELSE AddErrorArg(n, LiteralIncorrect, s)

(* ReadValue without the diagnostic for a 'false' in another letter case *)
ReadValueTokenSilentCase(n, s, ch) ==
    LET val == Value(n)
        tSigned == ch # PLUS
        tUnsigned == ch # MINUS
        ll == Strtoll(s)
        ull == Strtoull(s)
    IN IF IsValid(val)
       THEN AddErrorArg(n, "Value '%s' cannot follow a value: ',' or ':' missing?", s)
       ELSE IF s = S_null THEN SetValue(n, SetType(val, "Null"))
       ELSE IF CmpNoCaseEq(s, S_null)
       THEN SetValue(AddWarning(n, "CASE", "the 'null' literal must be lowercase"),
                     SetType(val, "Null"))
       ELSE IF s = S_true THEN SetValue(n, AssignScalar(val, "Bool", 1, <<>>))
       ELSE IF CmpNoCaseEq(s, S_true)
       THEN SetValue(AddWarning(n, "CASE", "the 'true' literal must be lowercase"),
                     AssignScalar(val, "Bool", 1, <<>>))
       ELSE IF s = S_false THEN SetValue(n, AssignScalar(val, "Bool", 0, <<>>))
       ELSE IF CmpNoCaseEq(s, S_false)
       THEN SetValue(n, AssignScalar(val, "Bool", 0, <<>>))
       ELSE IF ~(IsDigit(ch) \/ ch = PLUS \/ ch = MINUS)
       THEN AddErrorArg(n, LiteralIncorrect, s)
       ELSE IF tSigned /\ ll.ok THEN SetValue(n, AssignScalar(val, "Int", 0, ll.val))
       ELSE IF tUnsigned /\ ull.ok THEN SetValue(n, AssignScalar(val, "UInt", 0, ull.val))
       ELSE IF ToDouble(s) THEN SetValue(n, AssignScalar(val, "Double", 0, s))
       ELSE AddErrorArg(n, LiteralIncorrect, s)

(* ReadValue on the token s that ReadToken returned; n.ch is the nextCh    *)
ReadValueToken(n, s, ch) ==
    LET val == Value(n)
        tSigned == ch # PLUS
        tUnsigned == ch # MINUS
        ll == Strtoll(s)
        ull == Strtoull(s)
    IN IF IsValid(val)
       THEN AddErrorArg(n, "Value '%s' cannot follow a value: ',' or ':' missing?", s)
       ELSE IF s = S_null THEN SetValue(n, SetType(val, "Null"))
       ELSE IF CmpNoCaseEq(s, S_null)
       THEN SetValue(AddWarning(n, "CASE", "the 'null' literal must be lowercase"),
                     SetType(val, "Null"))
       ELSE IF s = S_true THEN SetValue(n, AssignScalar(val, "Bool", 1, <<>>))
       ELSE IF CmpNoCaseEq(s, S_true)
       THEN SetValue(AddWarning(n, "CASE", "the 'true' literal must be lowercase"),
                     AssignScalar(val, "Bool", 1, <<>>))
       ELSE IF s = S_false THEN SetValue(n, AssignScalar(val, "Bool", 0, <<>>))
       ELSE IF CmpNoCaseEq(s, S_false)
       THEN SetValue(AddWarning(n, "CASE", "the 'false' literal must be lowercase"),
                     AssignScalar(val, "Bool", 0, <<>>))
       ELSE IF ~(IsDigit(ch) \/ ch = PLUS \/ ch = MINUS)
       THEN AddErrorArg(n, LiteralIncorrect, s)
       ELSE IF tSigned /\ ll.ok THEN SetValue(n, AssignScalar(val, "Int", 0, ll.val))
       ELSE IF tUnsigned /\ ull.ok THEN SetValue(n, AssignScalar(val, "UInt", 0, ull.val))
       ELSE IF ToDouble(s) THEN SetValue(n, AssignScalar(val, "Double", 0, s))
       ELSE AddErrorArg(n, LiteralIncorrect, s)

(* ReadValue( is, ch, val ) for the `value' of the running frame; r.ch is   *)
(* the nextCh it returns                                                   *)
ReadValue(r, ch) ==
    LET t == ReadToken(r, ch)
    IN ReadValueToken([t EXCEPT !.buf = <<>>], t.buf, ch)

-----------------------------------------------------------------------------
(* The reader after wxJSONReader( flags, maxErrors ).  The constructor      *)
(* assigns m_flags, m_maxErrors, m_peekChar and m_noUtf8 only; Parse()      *)
(* assigns the counters and the cursor hints before it reads them, but not *)
(* m_comment and m_commentLine: commentLine is whatever the reader holds   *)
(* when Parse() is called.                                                 *)
NewReader(flags, maxErrors, commentLine) ==
    [flags |-> flags, maxErrors |-> maxErrors, peekChar |-> -1,
     noUtf8 |-> "NOUTF8_STREAM" \in flags,
     is |-> <<>>, pos |-> 0, lineNo |-> 0, colNo |-> 0, level |-> 0, depth |-> 0,
     errors |-> <<>>, warnings |-> <<>>,
     next |-> NullRef, current |-> NullRef, lastStored |-> NullRef,
     comment |-> <<>>, commentLine |-> commentLine,
     root |-> JInvalid, stack |-> <<>>, pc |-> "Idle", startCh |-> 0, result |-> 0,
     ch |-> 0, buf |-> <<>>, cnt |-> 0, abort |-> FALSE]

(* the scratch fields hold nothing between two steps *)
Settle(r) == [r EXCEPT !.ch = 0, !.buf = <<>>, !.cnt = 0, !.abort = FALSE]

(* Parse( is, val ) up to the call of GetStart *)
ParseEnter(r, doc) ==
    [r EXCEPT !.is = doc, !.pos = 0,
              !.level = 0, !.depth = 0, !.lineNo = 1, !.colNo = 1, !.peekChar = -1,
              !.errors = <<>>, !.warnings = <<>>,
              !.root = SetLineNo(r.root, -1),
              !.next = ValueRef(0), !.lastStored = NullRef, !.current = NullRef,
              !.stack = <<>>, !.startCh = 0, !.result = 0, !.pc = "GetStart"]

(* return m_errors.size() *)
ParseReturn(r) == Settle([r EXCEPT !.pc = "Done", !.result = Len(r.errors), !.stack = <<>>])

(* the entry of DoRead without the update of m_depth *)
DoReadEnterKeepsDepth(r) ==
    LET d == Depth(r)
        r1 == [r EXCEPT !.level = @ + 1,
                        !.stack = Append(@, [key |-> <<>>, value |-> JInvalid, ch |-> 0]),
                        !.next = ValueRef(d + 1), !.current = ValueRef(d),
                        !.lastStored = NullRef]
    IN SetSlot(r1, d, SetLineNo(SlotValue(r1, d), r1.lineNo))

(* the entry of DoRead( is, parent ): parent is the value of the top slot *)
DoReadEnter(r) ==
    LET d == Depth(r)
        lv == r.level + 1
        r1 == [r EXCEPT !.level = lv, !.depth = IF @ < lv THEN lv ELSE @,
                        !.stack = Append(@, [key |-> <<>>, value |-> JInvalid, ch |-> 0]),
                        !.next = ValueRef(d + 1), !.current = ValueRef(d),
                        !.lastStored = NullRef]
    IN SetSlot(r1, d, SetLineNo(SlotValue(r1, d), r1.lineNo))

(* a return of DoRead with result ch: the caller resumes at `ch = DoRead()', *)
(* the outermost caller is Parse                                           *)
DoReadReturn(r, ch) ==
    IF Depth(r) = 1 THEN ParseReturn(r)
    ELSE LET d == Depth(r) - 1
         IN Settle([r EXCEPT !.stack = [SubSeq(@, 1, d) EXCEPT ![d].ch = ch]])

SetCh(r, ch) == Settle([r EXCEPT !.stack[Depth(r)].ch = ch])

(* ch = <call>: the result n.ch of a call becomes the ch of the running   *)
(* frame, and the loop goes on                                             *)
Resume(n) == SetCh(n, n.ch)

-----------------------------------------------------------------------------
(* GetStart: one iteration of its loop, by the case of the switch *)
(* ch = <call> in GetStart *)
StartResume(n) == Settle([n EXCEPT !.startCh = n.ch])

GetStartRead(r) == StartResume(ReadChar(r))

GetStartComment(r) == StartResume(StoreComment(SkipComment(r), NullRef))

(* return ch; then Parse sets the type of the root and calls DoRead *)
GetStartFound(r) ==
    LET t == [r EXCEPT !.root = SetType(@, IF r.startCh = LBRACE THEN "Object" ELSE "Array"),
                       !.pc = "DoRead"]
    IN Settle(DoReadEnter(t))

(* the loop ends on ch < 0; Parse reports the error and returns *)
GetStartEof(r) ==
    ParseReturn(AddError(r, "Cannot find a start object/array character"))

-----------------------------------------------------------------------------
(* DoRead: one iteration of its loop, by the case of the switch *)
DoReadRead(r) == Resume(ReadChar(r))

DoReadWhiteSpace(r) == Resume(SkipWhiteSpace(r))

DoReadComment(r) == Resume(StoreComment(SkipComment(r), ParentRef(r)))

DoReadOpen(r, kind, missingName, followsInObject, followsInArray) ==
    LET e1 == IF IsObject(Parent(r)) /\ Top(r).key = <<>> THEN AddError(r, missingName) ELSE r
        e2 == IF IsValid(Value(r))
              THEN IF IsObject(Parent(r)) THEN AddError(e1, followsInObject)
                   ELSE IF IsArray(Parent(r)) THEN AddError(e1, followsInArray)
                   ELSE e1
              ELSE e1
    IN Settle(DoReadEnter(SetValue(e2, SetType(Value(e2), kind))))

DoReadOpenObject(r) ==
    DoReadOpen(r, "Object", "'{' is not allowed here ('name' is missing",
               "'{' cannot follow a 'value'", "'{' cannot follow a 'value' in JSON array")

DoReadOpenArray(r) ==
    DoReadOpen(r, "Array", "'[' is not allowed here ('name' is missing",
               "'[' cannot follow a 'value' text", "'[' cannot follow a 'value'")

(* the tail shared by the two closers: StoreValue and the cursor hints *)
DoReadClose(r, ch) ==
    LET s == StoreValue(r, ch)
        d == Depth(s) - 1
        c == [s EXCEPT !.current = ValueRef(d), !.next = NullRef]
    IN SetSlot(c, d, SetLineNo(SlotValue(c, d), c.lineNo))

(* the '}' case of a reader that refuses the wrong closer when the flag is *)
(* off: it reports the error and reads on                                  *)
DoReadCloseObjectStrict(r) ==
    IF ~IsObject(Parent(r)) /\ "MISSING" \notin r.flags
    THEN LET n == ReadChar(AddError(r,
                      "Trying to close an array using the '}' (close-object) char"))
         IN SetCh(n, n.ch)
    ELSE LET n == ReadChar(DoReadClose(r, RBRACE))
         IN DoReadReturn(n, n.ch)

DoReadCloseObject(r) ==
    LET w == IF ~IsObject(Parent(r))
             THEN AddWarning(r, "MISSING",
                      "Trying to close an array using the '}' (close-object) char")
             ELSE r
        n == ReadChar(DoReadClose(w, RBRACE))
    IN DoReadReturn(n, n.ch)

(* the ']' case of a reader that gives up the frame of an object: the     *)
(* pending value is not stored                                             *)
DoReadCloseArrayDropsValue(r) ==
    IF ~IsArray(Parent(r))
    THEN DoReadReturn(AddWarning(r, "MISSING",
                          "Trying to close an object using the ']' (close-array) char"), 0)
    ELSE DoReadReturn(DoReadClose(r, RBRACKET), 0)

(* the ']' case of a reader that looks at the byte after the closer *)
DoReadCloseArrayChecksNext(r) ==
    LET w == IF ~IsArray(Parent(r))
             THEN AddWarning(r, "MISSING",
                      "Trying to close an object using the ']' (close-array) char")
             ELSE r
        c == DoReadClose(w, RBRACKET)
        n == ReadChar(c)
    IN DoReadReturn(IF n.ch > SP THEN AddError(n, "text after the closing character") ELSE n, 0)

DoReadCloseArray(r) ==
    LET w == IF ~IsArray(Parent(r))
             THEN AddWarning(r, "MISSING",
                      "Trying to close an object using the ']' (close-array) char")
             ELSE r
    IN DoReadReturn(DoReadClose(w, RBRACKET), 0)

(* the ',' case without the call of StoreValue *)
DoReadCommaNoStore(r) == Resume(ReadChar([r EXCEPT !.stack[Depth(r)].key = <<>>]))

DoReadComma(r) ==
    Resume(ReadChar([StoreValue(r, COMMA) EXCEPT !.stack[Depth(r)].key = <<>>]))

DoReadString(r) ==
    Resume([ReadString(r) EXCEPT !.current = ValueRef(Depth(r)), !.next = NullRef])

DoReadMemoryBuff(r) ==
    Resume([ReadMemoryBuff(r) EXCEPT !.current = ValueRef(Depth(r)), !.next = NullRef])

(* the ':' case without the test that the value is a string *)
DoReadColonAnyValue(r) ==
    LET d == Depth(r)
        c == SetValue([r EXCEPT !.current = ValueRef(d), !.next = NullRef],
                      SetLineNo(Value(r), r.lineNo))
    IN Resume(ReadChar(
         IF ~IsObject(Parent(c))
         THEN AddError(c, "':' can only used in object's values")
         ELSE IF Top(c).key # <<>>
         THEN AddError(c, "':' not allowed where a 'name' string was already available")
         ELSE [c EXCEPT !.stack[d].key = Value(c).str,
                        !.stack[d].value = SetType(Value(c), "Invalid")]))

(* the ':' case without the test that the parent is an object *)
DoReadColonAnyParent(r) ==
    LET d == Depth(r)
        c == SetValue([r EXCEPT !.current = ValueRef(d), !.next = NullRef],
                      SetLineNo(Value(r), r.lineNo))
    IN Resume(ReadChar(
         IF ~IsString(Value(c))
         THEN AddError(c, "':' follows a value which is not of type 'string'")
         ELSE IF Top(c).key # <<>>
         THEN AddError(c, "':' not allowed where a 'name' string was already available")
         ELSE [c EXCEPT !.stack[d].key = Value(c).str,
                        !.stack[d].value = SetType(Value(c), "Invalid")]))

(* the ':' case that reports a name which is the empty string *)
DoReadColonRejectsEmptyName(r) ==
    LET d == Depth(r)
        c == SetValue([r EXCEPT !.current = ValueRef(d), !.next = NullRef],
                      SetLineNo(Value(r), r.lineNo))
    IN Resume(ReadChar(
         IF ~IsObject(Parent(c))
         THEN AddError(c, "':' can only used in object's values")
         ELSE IF ~IsString(Value(c)) \/ Value(c).str = <<>>
         THEN AddError(c, "':' follows a value which is not of type 'string'")
         ELSE IF Top(c).key # <<>>
         THEN AddError(c, "':' not allowed where a 'name' string was already available")
         ELSE [c EXCEPT !.stack[d].key = Value(c).str,
                        !.stack[d].value = SetType(Value(c), "Invalid")]))

DoReadColon(r) ==
    LET d == Depth(r)
        c == SetValue([r EXCEPT !.current = ValueRef(d), !.next = NullRef],
                      SetLineNo(Value(r), r.lineNo))
    IN Resume(ReadChar(
         IF ~IsObject(Parent(c))
         THEN AddError(c, "':' can only used in object's values")
         ELSE IF ~IsString(Value(c))
         THEN AddError(c, "':' follows a value which is not of type 'string'")
         ELSE IF Top(c).key # <<>>
         THEN AddError(c, "':' not allowed where a 'name' string was already available")
         ELSE [c EXCEPT !.stack[d].key = Value(c).str,
                        !.stack[d].value = SetType(Value(c), "Invalid")]))

DoReadValue(r) ==
    Resume(ReadValue(SetValue([r EXCEPT !.current = ValueRef(Depth(r)), !.next = NullRef],
                              SetLineNo(Value(r), r.lineNo)),
                     Top(r).ch))

(* the loop ended on ch < 0: the code after the loop *)
DoReadEof(r) ==
    LET w == IF IsArray(Parent(r))
             THEN AddWarning(r, "MISSING", "']' missing at end of file")
             ELSE IF IsObject(Parent(r))
             THEN AddWarning(r, "MISSING", "'}' missing at end of file")
             ELSE r
        s == StoreValue(w, Top(r).ch)
    IN DoReadReturn([s EXCEPT !.level = @ - 1], Top(r).ch)

-----------------------------------------------------------------------------
(* Which case of which switch the reader is at. *)
InGetStart(r) == r.pc = "GetStart"
InDoRead(r) == r.pc = "DoRead"

AtGetStartFound(r) == InGetStart(r) /\ r.startCh \in {LBRACE, LBRACKET}
AtGetStartComment(r) == InGetStart(r) /\ r.startCh = SLASH
AtGetStartEof(r) == InGetStart(r) /\ r.startCh < 0
AtGetStartRead(r) == InGetStart(r) /\ r.startCh >= 0 /\ r.startCh \notin {LBRACE, LBRACKET, SLASH}

AtRead(r) == InDoRead(r) /\ Top(r).ch = 0
AtWhiteSpace(r) == InDoRead(r) /\ Top(r).ch \in {SP, TAB, LF, CR}
AtEof(r) == InDoRead(r) /\ Top(r).ch < 0
AtComment(r) == InDoRead(r) /\ Top(r).ch = SLASH
AtOpenObject(r) == InDoRead(r) /\ Top(r).ch = LBRACE
AtCloseObject(r) == InDoRead(r) /\ Top(r).ch = RBRACE
AtOpenArray(r) == InDoRead(r) /\ Top(r).ch = LBRACKET
AtCloseArray(r) == InDoRead(r) /\ Top(r).ch = RBRACKET
AtComma(r) == InDoRead(r) /\ Top(r).ch = COMMA
AtString(r) == InDoRead(r) /\ Top(r).ch = DQUOTE
AtMemoryBuff(r) == InDoRead(r) /\ Top(r).ch = SQUOTE
AtColon(r) == InDoRead(r) /\ Top(r).ch = COLON
AtValue(r) ==
    /\ InDoRead(r)
    /\ Top(r).ch > 0
    /\ Top(r).ch \notin {SP, TAB, LF, CR, SLASH, LBRACE, RBRACE, LBRACKET, RBRACKET,
                         COMMA, DQUOTE, SQUOTE, COLON}

(* one iteration of the loop the reader is in *)
Step(r) ==
    IF AtGetStartFound(r) THEN GetStartFound(r)
    ELSE IF AtGetStartComment(r) THEN GetStartComment(r)
    ELSE IF AtGetStartEof(r) THEN GetStartEof(r)
    ELSE IF AtGetStartRead(r) THEN GetStartRead(r)
    ELSE IF AtRead(r) THEN DoReadRead(r)
    ELSE IF AtWhiteSpace(r) THEN DoReadWhiteSpace(r)
    ELSE IF AtEof(r) THEN DoReadEof(r)
    ELSE IF AtComment(r) THEN DoReadComment(r)
    ELSE IF AtOpenObject(r) THEN DoReadOpenObject(r)
    ELSE IF AtCloseObject(r) THEN DoReadCloseObject(r)
    ELSE IF AtOpenArray(r) THEN DoReadOpenArray(r)
    ELSE IF AtCloseArray(r) THEN DoReadCloseArray(r)
    ELSE IF AtComma(r) THEN DoReadComma(r)
    ELSE IF AtString(r) THEN DoReadString(r)
    ELSE IF AtMemoryBuff(r) THEN DoReadMemoryBuff(r)
    ELSE IF AtColon(r) THEN DoReadColon(r)
    ELSE IF AtValue(r) THEN DoReadValue(r)
    ELSE r

(* Parse( is, val ) run for at most n iterations on a reader as constructed *)
RECURSIVE Iterate(_, _)
Iterate(r, n) == IF n = 0 \/ r.pc = "Done" THEN r ELSE Iterate(Step(r), n - 1)

RunParse(r, doc) == Iterate(ParseEnter(r, doc), 3 * Len(doc) + 4)

-----------------------------------------------------------------------------
(* The documents given to Parse: every concatenation of at most MaxChunks  *)
(* chunks (the structural bytes, a string, a number, a slash and a line    *)
(* feed); the extension tokens (mixed-case literal, memory buffer, sign,   *)
(* open string, second string, backspace) inside an array or after a       *)
(* member name; comments that hold a start character; texts with a comma   *)
(* before the closer; and the standard JSON texts of a bounded set of      *)
(* trees.                                                                  *)
MaxChunks == 3
MaxItems == 2
SmallMaxErrors == 1
DefaultMaxErrors == 30

T_a == <<DQUOTE, 97, DQUOTE>>
T_Null == <<78, 117, 108, 108>>
T_one == <<49>>
T_membuf == <<SQUOTE, 52, 49, SQUOTE>>
T_member == <<LBRACE, DQUOTE, 97, DQUOTE, COLON>>

Chunks ==
    { <<LBRACE>>, <<LBRACKET>>, <<RBRACE>>, <<RBRACKET>>, <<COMMA>>, <<COLON>>,
      T_a, T_one, <<SLASH>>, <<LF>> }

ExtensionTokens == { T_Null, T_membuf, <<MINUS>>, <<DQUOTE>>, T_a, <<BS>> }

ExtensionDocs ==
    { lead \o x \o y \o tail :
        lead \in { <<LBRACKET>>, T_member },
        x \in ExtensionTokens,
        y \in ExtensionTokens \cup { <<>> },
        tail \in { <<>>, <<RBRACKET>>, <<RBRACE>> } }

RECURSIVE ChunkDocs(_)
ChunkDocs(n) ==
    IF n = 0 THEN {<<>>}
    ELSE LET p == ChunkDocs(n - 1) IN p \cup {d \o c : d \in p, c \in Chunks}

(* A standard JSON text with the tree it denotes: [text, tree].  The tree   *)
(* is written with the value container's constructors only.                 *)
Denote(k, num, str, items, members) ==
    [kind |-> k, num |-> num, str |-> str, items |-> items, members |-> members]

S_one == [text |-> T_one, tree |-> Denote("Int", 0, T_one, <<>>, <<>>)]
S_a == [text |-> T_a, tree |-> Denote("String", 0, <<97>>, <<>>, <<>>)]

ScalarTexts ==
    { S_one, S_a, [text |-> S_true, tree |-> Denote("Bool", 1, <<>>, <<>>, <<>>)] }

(* the i-th member is named by the i-th lower-case letter *)
Key(i) == <<96 + i>>
KeyText(i) == <<DQUOTE>> \o Key(i) \o <<DQUOTE, COLON>>

RECURSIVE JoinArray(_, _)
JoinArray(ts, sep) ==
    IF ts = <<>> THEN <<>>
    ELSE IF Len(ts) = 1 THEN ts[1].text
    ELSE ts[1].text \o sep \o JoinArray(Tail(ts), sep)

RECURSIVE JoinObject(_, _, _)
JoinObject(ts, i, sep) ==
    IF i > Len(ts) THEN <<>>
    ELSE KeyText(i) \o ts[i].text \o (IF i < Len(ts) THEN sep ELSE <<>>)
         \o JoinObject(ts, i + 1, sep)

Tuples(S, n) == UNION {[1..k -> S] : k \in 0..n}

ArrayOf(ts, sep) ==
    [text |-> <<LBRACKET>> \o JoinArray(ts, sep) \o <<RBRACKET>>,
     tree |-> Denote("Array", 0, <<>>, [i \in 1..Len(ts) |-> ts[i].tree], <<>>)]

ObjectOf(ts, sep) ==
    [text |-> <<LBRACE>> \o JoinObject(ts, 1, sep) \o <<RBRACE>>,
     tree |-> Denote("Object", 0, <<>>, <<>>,
                     [k \in {Key(i) : i \in 1..Len(ts)} |->
                        ts[CHOOSE i \in 1..Len(ts) : Key(i) = k].tree])]

Separators == { <<COMMA>>, <<SP, COMMA, CR, LF, TAB>> }

InnerTexts ==
    ScalarTexts
    \cup { ArrayOf(<<>>, <<COMMA>>), ArrayOf(<<S_one>>, <<COMMA>>),
           ObjectOf(<<>>, <<COMMA>>), ObjectOf(<<S_a>>, <<COMMA>>) }

StandardTexts ==
    UNION { {ArrayOf(ts, sep), ObjectOf(ts, sep)} :
              ts \in Tuples(InnerTexts, MaxItems), sep \in Separators }

(* a standard text of one array or object with a comma before its closer *)
TrailingCommaDocs ==
    { SubSeq(t, 1, Len(t) - 1) \o <<COMMA, t[Len(t)]>> :
        t \in {ArrayOf(ts, <<COMMA>>).text : ts \in Tuples(ScalarTexts, 1)}
              \cup {ObjectOf(ts, <<COMMA>>).text : ts \in Tuples(ScalarTexts, 1)} }

(* comments that hold a start character, before a text or alone *)
CommentDocs ==
    { c \o t :
        c \in { <<SLASH, SLASH, LBRACKET, LF>>, <<SLASH, STAR, LBRACE, STAR, SLASH>>,
                <<SLASH, STAR, SLASH, LBRACKET>> },
        t \in { <<>>, <<LBRACKET, RBRACKET>>, <<LBRACE, RBRACE, SLASH>> } }

(* unquoted tokens at and around the limits of the 64-bit integers, with   *)
(* and without a sign, and tokens that are no number                       *)
LLongMinMinus1Text == <<MINUS>> \o SubSeq(LLongMaxText, 1, 18) \o <<57>>
ULongMaxPlus1Text == SubSeq(ULongMaxText, 1, 19) \o <<54>>

IntegerTokens ==
    { ZeroText, T_one, <<PLUS>> \o T_one, <<MINUS>> \o T_one, <<MINUS>> \o ZeroText,
      LLongMaxText, LLongMaxPlus1Text, <<PLUS>> \o LLongMaxPlus1Text,
      <<MINUS>> \o LLongMaxPlus1Text, LLongMinMinus1Text,
      ULongMaxText, <<PLUS>> \o ULongMaxText, <<MINUS>> \o ULongMaxText,
      ULongMaxPlus1Text, SubSeq(ULongMaxText, 1, 19) \o <<57>>,
      <<50>> \o Tail(ULongMaxText), ULongMaxText \o ZeroText }

OtherTokens ==
    { <<49, 46, 53>>, <<MINUS, 49, 101, 50>>, <<49, 120>>, <<PLUS, MINUS, 49>>,
      <<PLUS>>, <<MINUS, 120>>, <<110, 117, 108>>, <<70, 97, 76, 83, 101>>, S_false,
      <<46, 53>> }

NumberTokens == IntegerTokens \cup OtherTokens

NumberDocs == { <<LBRACKET>> \o t \o <<RBRACKET>> : t \in NumberTokens }

(* an array with one line end, or the half of one, in each place *)
LineEnds == { <<LF>>, <<CR, LF>>, <<CR>>, <<LF, CR>>, <<CR, CR, LF>> }

LineDocs ==
    { <<LBRACKET>> \o e \o t \o f \o tail :
        e \in LineEnds, t \in { <<>>, T_one },
        f \in LineEnds \cup { <<>> }, tail \in { <<>>, <<RBRACKET>> } }

(* an object with a block comment before its only member, on the line of   *)
(* the '{' and on the next line                                            *)
T_hi == <<SLASH, STAR, 104, 105, STAR, SLASH>>
CommentedMember(gap) ==
    <<LBRACE>> \o gap \o T_hi \o <<SP, DQUOTE, 120, DQUOTE, COLON, SP>> \o T_one
    \o <<SP, RBRACE>>
CommentedMembers == { CommentedMember(<<SP>>), CommentedMember(<<LF>>) }

(* memory buffers of upper-case and lower-case hex digits, of the bytes    *)
(* between '9' and 'A', and of bytes below '0' and above 'F'               *)
MemoryBuffTexts ==
    { <<68, 69, 65, 68>>, <<48, 57, 65, 70>>, <<100, 101>>, <<COLON, 65>>, <<52, 64>>,
      <<52, 71>>, <<SLASH, 48>>, <<68, 69, 97, 100>> }
MemoryBuffDocs ==
    { <<LBRACKET, SQUOTE>> \o t \o <<SQUOTE, RBRACKET>> : t \in MemoryBuffTexts }

(* a member with a second ':' after a second string or after a number *)
SecondColonDocs ==
    { T_member \o x \o <<COLON>> \o T_one \o <<RBRACE>> : x \in { T_a, T_one } }

(* a string of one \u escape with four hex digits, with hex digits first   *)
(* only, with a hex digit last only and with none; a string of one letter; *)
(* each closed and each cut by the end of the input                        *)
UesTexts ==
    { <<48, 48, 69, 57>>, <<48, 48, 52, 49>>, <<50, 48, 65, 67>>, <<49, 50, 90, 90>>,
      <<90, 90, 49, 50>>, <<90, 90, 90, 90>> }
StringTexts == { <<BACKSLASH, 117>> \o h : h \in UesTexts } \cup { <<97>>, <<97, 98>> }
StringDocs ==
    { <<LBRACKET, DQUOTE>> \o t \o tail :
        t \in StringTexts, tail \in { <<>>, <<DQUOTE, RBRACKET>> } }

(* memory buffers of an odd number of characters, and one with a quote     *)
(* after an even number                                                    *)
OddBuffDocs ==
    { <<LBRACKET, SQUOTE>> \o t \o <<SQUOTE>> \o tail :
        t \in { <<52>>, <<52, 49, 52>>, <<52, 49>> },
        tail \in { <<RBRACKET>>, <<COMMA>> \o T_one \o <<RBRACKET>>,
                   <<52, SQUOTE, RBRACKET>> } }

(* an object whose only member has the empty name, up to the closer, to a  *)
(* comma and to the end of the input                                       *)
EmptyNameDocs ==
    { <<LBRACE, DQUOTE, DQUOTE, COLON>> \o T_one \o tail :
        tail \in { <<RBRACE>>, <<COMMA>>, <<>>, <<COMMA>> \o KeyText(1) \o T_one \o <<RBRACE>> } }

(* an array with a line comment after its first item or after the comma    *)
(* that follows it, on the line of the item or on the next line, with the  *)
(* item on the line of the '[' or on the next line                         *)
T_line == <<SLASH, SLASH, 99, LF>>
StoreCommentDocs ==
    { <<LBRACKET>> \o pre \o T_one \o sep \o gap \o T_line \o tail :
        pre \in { <<>>, <<LF>> }, sep \in { <<>>, <<COMMA>> }, gap \in { <<>>, <<LF>> },
        tail \in { <<RBRACKET>>, T_one \o <<RBRACKET>> } }

(* an object with a line comment between the ':' of its second member and *)
(* the value, on the line of the ':' or on the next line                   *)
PendingMemberDocs ==
    { <<LBRACE>> \o KeyText(1) \o T_one \o <<COMMA>> \o KeyText(2) \o gap \o T_line
      \o T_one \o <<RBRACE>> : gap \in { <<>>, <<LF>> } }

Documents ==
    ChunkDocs(MaxChunks) \cup ExtensionDocs \cup TrailingCommaDocs \cup CommentDocs
    \cup {t.text : t \in StandardTexts} \cup NumberDocs \cup LineDocs
    \cup CommentedMembers \cup MemoryBuffDocs \cup SecondColonDocs
    \cup StringDocs \cup OddBuffDocs \cup EmptyNameDocs \cup StoreCommentDocs
    \cup PendingMemberDocs

(* The readers: flags, maxErrors and the m_commentLine the reader holds    *)
(* when Parse is called (the line of some earlier comment, or whatever the *)
(* memory of a new reader holds; it is read only under STORE_COMMENTS).    *)
CommentsBefore == {"ALLOW_COMMENTS", "STORE_COMMENTS"}
CommentsAfter == {"STORE_COMMENTS", "COMMENTS_AFTER", "MISSING"}
Extensions == TOLERANT \cup {"MEMORYBUFF"}
LeftoverLines == {1, 2}

Configs ==
    { <<STRICT, SmallMaxErrors, 1>>, <<Extensions, DefaultMaxErrors, 1>>,
      <<CommentsBefore, DefaultMaxErrors, 1>> }
    \cup {<<CommentsAfter, SmallMaxErrors, c>> : c \in LeftoverLines}

-----------------------------------------------------------------------------
Init ==
    /\ input \in Documents
    /\ \E c \in Configs : rd = NewReader(c[1], c[2], c[3])

Parse == rd.pc = "Idle" /\ rd' = ParseEnter(rd, input) /\ UNCHANGED input

OnStartRead == AtGetStartRead(rd) /\ rd' = GetStartRead(rd) /\ UNCHANGED input
OnStartComment == AtGetStartComment(rd) /\ rd' = GetStartComment(rd) /\ UNCHANGED input
OnStartFound == AtGetStartFound(rd) /\ rd' = GetStartFound(rd) /\ UNCHANGED input
OnStartEof == AtGetStartEof(rd) /\ rd' = GetStartEof(rd) /\ UNCHANGED input

OnRead == AtRead(rd) /\ rd' = DoReadRead(rd) /\ UNCHANGED input
OnWhiteSpace == AtWhiteSpace(rd) /\ rd' = DoReadWhiteSpace(rd) /\ UNCHANGED input
OnComment == AtComment(rd) /\ rd' = DoReadComment(rd) /\ UNCHANGED input
OnOpenObject == AtOpenObject(rd) /\ rd' = DoReadOpenObject(rd) /\ UNCHANGED input
OnCloseObject == AtCloseObject(rd) /\ rd' = DoReadCloseObject(rd) /\ UNCHANGED input
OnOpenArray == AtOpenArray(rd) /\ rd' = DoReadOpenArray(rd) /\ UNCHANGED input
OnCloseArray == AtCloseArray(rd) /\ rd' = DoReadCloseArray(rd) /\ UNCHANGED input
OnComma == AtComma(rd) /\ rd' = DoReadComma(rd) /\ UNCHANGED input
OnString == AtString(rd) /\ rd' = DoReadString(rd) /\ UNCHANGED input
OnMemoryBuff == AtMemoryBuff(rd) /\ rd' = DoReadMemoryBuff(rd) /\ UNCHANGED input
OnColon == AtColon(rd) /\ rd' = DoReadColon(rd) /\ UNCHANGED input
OnValue == AtValue(rd) /\ rd' = DoReadValue(rd) /\ UNCHANGED input
OnEof == AtEof(rd) /\ rd' = DoReadEof(rd) /\ UNCHANGED input

Next ==
    \/ Parse
    \/ OnStartRead
    \/ OnStartComment
    \/ OnStartFound
    \/ OnStartEof
    \/ OnRead
    \/ OnWhiteSpace
    \/ OnComment
    \/ OnOpenObject
    \/ OnCloseObject
    \/ OnOpenArray
    \/ OnCloseArray
    \/ OnComma
    \/ OnString
    \/ OnMemoryBuff
    \/ OnColon
    \/ OnValue
    \/ OnEof

Spec == Init /\ [][Next]_vars

-----------------------------------------------------------------------------
(* Properties of the reader.                                               *)

Done == rd.pc = "Done"

(* C1: every iteration of the DoRead dispatch loop consumes at least one   *)
(* input byte, or enters or leaves a frame, or reads the end of the input  *)
(* (which ends the loop): no iteration leaves the parse where it was.      *)
C1_EveryIterationAdvances ==
    [][InDoRead(rd) =>
          \/ rd'.pos > rd.pos
          \/ rd'.pc = "Done"
          \/ Depth(rd') # Depth(rd)
          \/ Top(rd').ch < 0]_vars

(* C9: the lists of errors and of warnings never hold more than            *)
(* m_maxErrors + 1 entries.                                                *)
C9_ListsBounded ==
    /\ Len(rd.errors) <= rd.maxErrors + 1
    /\ Len(rd.warnings) <= rd.maxErrors + 1

(* a parse that ran into more than m_maxErrors warnings *)
C9_Witness ==
    /\ Done
    /\ Len(rd.warnings) = rd.maxErrors + 1
    /\ rd.level > 0

IsSentinel(m) == m = TooManyErrors \/ m = TooManyWarnings

(* the rule of one list across one step of the parse *)
SentinelRule(old, new, maxErrors) ==
    /\ Len(old) = maxErrors + 1 => new = old
    /\ Len(old) <= maxErrors /\ Len(new) > maxErrors =>
           /\ Len(new) = maxErrors + 1
           /\ SubSeq(new, 1, Len(old)) = old
           /\ IsSentinel(new[maxErrors + 1])
    /\ \A i \in 1..Len(new) : IsSentinel(new[i]) => i = maxErrors + 1

(* C10: a diagnostic added to a list of m_maxErrors entries appends the    *)
(* one "too many" sentinel in its place; a list that holds the sentinel    *)
(* does not change for the rest of the parse; the sentinel is the entry at *)
(* index m_maxErrors (counted from 0) and no other.                        *)
C10_SingleSentinel ==
    [][rd.pc \in {"GetStart", "DoRead"} =>
          /\ SentinelRule(rd.errors, rd'.errors, rd.maxErrors)
          /\ SentinelRule(rd.warnings, rd'.warnings, rd.maxErrors)]_vars

(* a parse that went on after the sentinel was appended to the errors *)
C10_Witness ==
    /\ Done
    /\ Len(rd.errors) = rd.maxErrors + 1
    /\ rd.errors[rd.maxErrors + 1] = TooManyErrors
    /\ rd.errors[rd.maxErrors].line < rd.lineNo

(* the value tree, comments and line numbers aside: kinds, keys, scalar    *)
(* values and the order of the elements                                    *)
RECURSIVE Tree(_)
Tree(v) ==
    [kind |-> v.kind, num |-> v.num, str |-> v.str,
     items |-> [i \in 1..Len(v.items) |-> Tree(v.items[i])],
     members |-> [k \in DOMAIN v.members |-> Tree(v.members[k])]]

StandardDocs == {t.text : t \in StandardTexts}
StandardTree(doc) == (CHOOSE t \in StandardTexts : t.text = doc).tree

(* C2: the parse of a well-formed standard JSON text returns 0, records no *)
(* warning and builds the tree the grammar denotes, under every flag set.  *)
C2_StandardTextParses ==
    Done /\ input \in StandardDocs =>
        /\ rd.result = 0
        /\ rd.errors = <<>>
        /\ rd.warnings = <<>>
        /\ Tree(rd.root) = StandardTree(input)

(* a standard text of an object with MaxItems members, one of them nested, *)
(* parsed with the extensions on                                           *)
C2_Witness ==
    /\ Done
    /\ input \in StandardDocs
    /\ rd.flags = Extensions
    /\ IsObject(rd.root)
    /\ Cardinality(DOMAIN rd.root.members) = MaxItems
    /\ rd.depth = 2

-----------------------------------------------------------------------------
(* The grammar of standard JSON (RFC 8259) as a recognizer on bytes: each  *)
(* operator takes the index where the construct starts and gives the index *)
(* after it, or 0 when the bytes there are not that construct.             *)
At(b, i) == IF i >= 1 /\ i <= Len(b) THEN b[i] ELSE EOFCH

RECURSIVE JsonWs(_, _)
JsonWs(b, i) == IF At(b, i) \in {SP, TAB, LF, CR} THEN JsonWs(b, i + 1) ELSE i

RECURSIVE JsonChars(_, _)
JsonChars(b, i) ==
    LET c == At(b, i)
        e == At(b, i + 1)
    IN IF c < SP THEN 0
       ELSE IF c = DQUOTE THEN i + 1
       ELSE IF c = BACKSLASH
       THEN IF e \in {DQUOTE, BACKSLASH, SLASH, 98, 102, 110, 114, 116}
            THEN JsonChars(b, i + 2)
            ELSE IF e = 117 /\ \A k \in 2..5 : IsHexDigit(At(b, i + k))
            THEN JsonChars(b, i + 6)
            ELSE 0
       ELSE JsonChars(b, i + 1)

JsonString(b, i) == IF At(b, i) = DQUOTE THEN JsonChars(b, i + 1) ELSE 0

RECURSIVE JsonDigits(_, _)
JsonDigits(b, i) == IF IsDigit(At(b, i)) THEN JsonDigits(b, i + 1) ELSE i

JsonNumber(b, i) ==
    LET i1 == IF At(b, i) = MINUS THEN i + 1 ELSE i
        i2 == IF At(b, i1) = DIGIT0 THEN i1 + 1 ELSE JsonDigits(b, i1)
        frac == At(b, i2) = 46
        i3 == IF frac THEN JsonDigits(b, i2 + 1) ELSE i2
        exp == At(b, i3) \in {69, 101}
        i4 == IF At(b, i3 + 1) \in {PLUS, MINUS} THEN i3 + 2 ELSE i3 + 1
        i5 == IF exp THEN JsonDigits(b, i4) ELSE i3
    IN IF i2 > i1 /\ (frac => i3 > i2 + 1) /\ (exp => i5 > i4) THEN i5 ELSE 0

JsonLiteral(b, i, lit) ==
    IF i + Len(lit) - 1 <= Len(b) /\ SubSeq(b, i, i + Len(lit) - 1) = lit
    THEN i + Len(lit) ELSE 0

RECURSIVE JsonValue(_, _)
RECURSIVE JsonElements(_, _)
RECURSIVE JsonMembers(_, _)
JsonValue(b, i) ==
    LET c == At(b, i)
        j == JsonWs(b, i + 1)
    IN IF c = LBRACKET
       THEN IF At(b, j) = RBRACKET THEN j + 1 ELSE JsonElements(b, j)
       ELSE IF c = LBRACE
       THEN IF At(b, j) = RBRACE THEN j + 1 ELSE JsonMembers(b, j)
       ELSE IF c = DQUOTE THEN JsonString(b, i)
       ELSE IF c = 116 THEN JsonLiteral(b, i, S_true)
       ELSE IF c = 102 THEN JsonLiteral(b, i, S_false)
       ELSE IF c = 110 THEN JsonLiteral(b, i, S_null)
       ELSE JsonNumber(b, i)

JsonElements(b, i) ==
    LET v == JsonValue(b, i)
        j == JsonWs(b, v)
    IN IF v = 0 THEN 0
       ELSE IF At(b, j) = RBRACKET THEN j + 1
       ELSE IF At(b, j) = COMMA THEN JsonElements(b, JsonWs(b, j + 1))
       ELSE 0

JsonMembers(b, i) ==
    LET s == JsonString(b, i)
        c == JsonWs(b, s)
        v == JsonValue(b, JsonWs(b, c + 1))
        j == JsonWs(b, v)
    IN IF s = 0 \/ At(b, c) # COLON \/ v = 0 THEN 0
       ELSE IF At(b, j) = RBRACE THEN j + 1
       ELSE IF At(b, j) = COMMA THEN JsonMembers(b, JsonWs(b, j + 1))
       ELSE 0

(* the index of the first start character, 0 when there is none *)
FirstStart(b) ==
    IF \E i \in 1..Len(b) : b[i] \in {LBRACE, LBRACKET}
    THEN CHOOSE i \in 1..Len(b) :
            /\ b[i] \in {LBRACE, LBRACKET}
            /\ \A j \in 1..(i - 1) : b[j] \notin {LBRACE, LBRACKET}
    ELSE 0

(* C3: when a reader constructed with STRICT returns 0, the text from the  *)
(* first start character to its matching closer is well-formed standard    *)
(* JSON.                                                                   *)
C3_StrictAcceptsOnlyJson ==
    Done /\ rd.flags = STRICT /\ rd.result = 0 =>
        JsonValue(input, FirstStart(input)) # 0

-----------------------------------------------------------------------------
(* Comments as the text delimits them: from "//" to the end of the line,   *)
(* from the two bytes that open a block to the next two bytes that close   *)
(* it, to the end of the text when it is not closed.                       *)
RECURSIVE EndOfLine(_, _)
EndOfLine(b, i) ==
    IF i > Len(b) \/ b[i] \in {LF, CR} THEN i ELSE EndOfLine(b, i + 1)

RECURSIVE EndOfBlock(_, _)
EndOfBlock(b, i) ==
    IF i > Len(b) THEN i
    ELSE IF b[i] = STAR /\ At(b, i + 1) = SLASH THEN i + 2
    ELSE EndOfBlock(b, i + 1)

RECURSIVE StartOutsideComments(_, _)
StartOutsideComments(b, i) ==
    IF i > Len(b) THEN FALSE
    ELSE IF b[i] = SLASH /\ At(b, i + 1) = SLASH
    THEN StartOutsideComments(b, EndOfLine(b, i + 2))
    ELSE IF b[i] = SLASH /\ At(b, i + 1) = STAR
    THEN StartOutsideComments(b, EndOfBlock(b, i + 2))
    ELSE IF b[i] \in {LBRACE, LBRACKET} THEN TRUE
    ELSE StartOutsideComments(b, i + 1)

CannotFindStart == "Cannot find a start object/array character"

(* C4: after the parse of an input with no start character outside         *)
(* comments the root has no kind and the errors are the one "Cannot find a *)
(* start object/array character" error.                                    *)
C4_NoStartOneError ==
    Done /\ ~StartOutsideComments(input, 1) =>
        /\ ~IsValid(rd.root)
        /\ Len(rd.errors) = 1
        /\ rd.errors[1].msg = CannotFindStart

(* what may follow the closer of the root frame *)
Tails == { <<>>, <<BS>>, <<LBRACKET>>, <<SLASH, STAR>>, <<COMMA, DQUOTE>>, <<CR, LF, RBRACE>> }

AtRootCloser(r) == Depth(r) = 1 /\ (AtCloseObject(r) \/ AtCloseArray(r))

(* C5: the iteration that reads the closer of the root frame ends the      *)
(* parse, and its errors, warnings, result and value tree are those it     *)
(* gives with any other bytes, or none, in place of the bytes not yet      *)
(* read.                                                                   *)
C5_TrailingBytesIgnored ==
    [][AtRootCloser(rd) =>
          /\ rd'.pc = "Done"
          /\ \A t \in Tails :
                LET o == Step([rd EXCEPT !.is = SubSeq(@, 1, rd.pos) \o t])
                IN /\ o.pc = "Done"
                   /\ o.errors = rd'.errors
                   /\ o.warnings = rd'.warnings
                   /\ o.result = rd'.result
                   /\ o.root = rd'.root]_vars

(* a parse that ended at the closer of the root with bytes left unread *)
C5_Witness ==
    /\ Done
    /\ rd.pos + 1 < Len(input)
    /\ IsValid(rd.root)
    /\ rd.errors = <<>>

(* C6: the iterations of GetStart over the bytes before the first start    *)
(* character report no error and no warning.                               *)
C6_TextBeforeStartIsSilent ==
    [][InGetStart(rd) /\ rd.startCh >= 0 =>
          /\ rd'.errors = rd.errors
          /\ rd'.warnings = rd.warnings]_vars

(* the combinations of the tolerance flags compared: none, each flag alone, *)
(* the TOLERANT preset, all of them                                        *)
FlagChoices ==
    {STRICT, TOLERANT, ToleranceFlags} \cup {{f} : f \in ToleranceFlags}

(* the parse of the same input under the flags f gives the same tree and   *)
(* consumes the same bytes                                                 *)
SameTreeUnder(f) ==
    LET o == RunParse(NewReader(f, rd.maxErrors, rd.commentLine), input)
    IN /\ o.pc = "Done"
       /\ o.pos = rd.pos
       /\ Tree(o.root) = Tree(rd.root)

(* C7: the value tree of a finished parse with all the tolerance flags on  *)
(* is the tree of the parse of the same input under STRICT and under every *)
(* other combination of the tolerance flags; the tree of a finished parse  *)
(* under STRICT is the tree under all the tolerance flags.                 *)
C7_ToleranceKeepsTree ==
    /\ Done /\ rd.flags = ToleranceFlags => \A f \in FlagChoices : SameTreeUnder(f)
    /\ Done /\ rd.flags = STRICT => SameTreeUnder(ToleranceFlags)

(* a parse with the extensions on whose warnings are errors under STRICT *)
C7_Witness ==
    /\ Done
    /\ rd.flags = Extensions
    /\ rd.warnings # <<>>
    /\ rd.errors = <<>>
    /\ rd.root.items # <<>>

(* C8: the errors, the warnings and the value tree of a finished parse are *)
(* those of a parse of the same input by a reader of the same flags and    *)
(* maxErrors, whatever that reader held before the call.                   *)
C8_NoLeftoverState ==
    Done =>
        \A c \in LeftoverLines :
            LET o == RunParse(NewReader(rd.flags, rd.maxErrors, c), input)
            IN /\ o.errors = rd.errors
               /\ o.warnings = rd.warnings
               /\ o.root = rd.root

-----------------------------------------------------------------------------
(* C11: once the list of errors holds m_maxErrors entries the parse reads  *)
(* no further byte of the input, leaves the tree as it is and adds no      *)
(* other error.                                                            *)
C11_StopsAtMaxErrors ==
    [][rd.pc \in {"GetStart", "DoRead"} /\ Len(rd.errors) >= rd.maxErrors =>
          /\ rd'.pos = rd.pos
          /\ rd'.root = rd.root
          /\ rd'.errors = rd.errors]_vars

-----------------------------------------------------------------------------
(* the extensions a warning can be about, and 0 for a plain warning *)
WarningTypes == ToleranceFlags \cup {""}

(* AddWarning( type, "m" ) on the reader r: routed to the errors when the  *)
(* type is not 0 and its flag is off, to the warnings otherwise; the list  *)
(* it is routed to gets the formatted message when it has room, the other  *)
(* list is left as it is                                                   *)
RoutesWarning(r, type) ==
    LET o == AddWarning(r, type, "m")
        line == [line |-> r.lineNo, col |-> r.colNo, msg |-> "m", arg |-> <<>>]
    IN IF type # "" /\ type \notin r.flags
       THEN /\ o.warnings = r.warnings
            /\ Len(r.errors) < r.maxErrors =>
                   o.errors = Append(r.errors, [sev |-> "Error"] @@ line)
       ELSE /\ o.errors = r.errors
            /\ Len(r.warnings) < r.maxErrors =>
                   o.warnings = Append(r.warnings, [sev |-> "Warning"] @@ line)

(* the token ReadValue would read is null, true or false in another case *)
MixedCaseLiteral(r) ==
    LET tok == ReadToken(r, Top(r).ch).buf
    IN \E lit \in {S_null, S_true, S_false} : CmpNoCaseEq(tok, lit) /\ tok # lit

(* the iteration the reader is at meets an extension to JSON *)
AtExtension(r) ==
    \/ (AtComment(r) \/ AtGetStartComment(r)) /\ PeekChar(r).ch \in {SLASH, STAR}
    \/ AtValue(r) /\ ~IsValid(Value(r)) /\ MixedCaseLiteral(r)
    \/ AtCloseObject(r) /\ ~IsObject(Parent(r))
    \/ AtCloseArray(r) /\ ~IsArray(Parent(r))
    \/ AtEof(r)
    \/ AtString(r) /\ IsString(Value(r)) /\ ~ReadStringLoop(r).abort
    \/ AtMemoryBuff(r)

(* C12: AddWarning( type, msg ) with type # 0 and the flag of type off     *)
(* adds "Error: line L, col C - msg" to the errors and leaves the warnings *)
(* unchanged; in every other case it adds "Warning: ..." to the warnings   *)
(* and leaves the errors unchanged.  So under STRICT every comment, mixed  *)
(* case literal, wrong or missing closer, multi-line string and memory     *)
(* buffer adds an error, and the errors are what Parse returns.            *)
C12_WarningRouting ==
    [][rd.pc \in {"GetStart", "DoRead"} =>
          /\ \A type \in WarningTypes : RoutesWarning(rd, type)
          /\ rd.flags = STRICT =>
                 /\ rd'.warnings = <<>>
                 /\ AtExtension(rd) /\ Len(rd.errors) < rd.maxErrors =>
                        Len(rd'.errors) > Len(rd.errors)
                 /\ rd'.pc = "Done" => rd'.result = Len(rd'.errors)]_vars

(* a STRICT parse that returned the error of a comment, and no warning *)
C12_Witness ==
    /\ Done
    /\ rd.flags = STRICT
    /\ rd.warnings = <<>>
    /\ rd.result = Len(rd.errors)
    /\ \E i \in 1..Len(rd.errors) : rd.errors[i].msg = WarnComments

-----------------------------------------------------------------------------
(* the reader is at a '}' in the frame of an array, or at a ']' in the     *)
(* frame of an object                                                      *)
WrongCloser(r) ==
    \/ AtCloseObject(r) /\ ~IsObject(Parent(r))
    \/ AtCloseArray(r) /\ ~IsArray(Parent(r))

(* the same reader after the closer that matches the frame *)
RightCloser(r) == IF AtCloseObject(r) THEN DoReadCloseArray(r) ELSE DoReadCloseObject(r)

WrongCloserText(r) ==
    IF AtCloseObject(r)
    THEN "Trying to close an array using the '}' (close-object) char"
    ELSE "Trying to close an object using the ']' (close-array) char"

(* what a closer leaves behind: the tree, the frames still open with their *)
(* key and pending value, the counters and the cursor hints                *)
Closed(r) ==
    [root |-> r.root, pc |-> r.pc, level |-> r.level, depth |-> r.depth,
     current |-> r.current, next |-> r.next, lastStored |-> r.lastStored,
     frames |-> [i \in 1..Depth(r) |-> [key |-> r.stack[i].key, value |-> r.stack[i].value]]]

(* C13: a '}' in the frame of an array closes the frame as ']' would (the  *)
(* pending value is stored into the parent and the frame returns) and adds *)
(* exactly one diagnostic, the wrong-closer message: an error when the     *)
(* MISSING flag is off, a warning when it is on; the same holds for a ']'  *)
(* in the frame of an object.                                              *)
C13_WrongCloserCloses ==
    [][WrongCloser(rd) =>
          LET o == RightCloser(rd)
              n == Len(rd.errors)
          IN /\ Closed(rd') = Closed(o)
             /\ Depth(rd') = Depth(rd) - 1
             /\ IF "MISSING" \in rd.flags
                THEN /\ rd'.errors = o.errors
                     /\ Len(rd.warnings) < rd.maxErrors =>
                            rd'.warnings = Append(rd.warnings,
                                               Msg("Warning", rd, WrongCloserText(rd), <<>>))
                ELSE /\ rd'.warnings = o.warnings
                     /\ Len(o.errors) < rd.maxErrors =>
                            rd'.errors = rd.errors
                                         \o <<Msg("Error", rd, WrongCloserText(rd), <<>>)>>
                                         \o SubSeq(o.errors, n + 1, Len(o.errors))]_vars

(* "[1}" under STRICT: the array of one integer and the one error *)
C13_Witness ==
    /\ Done
    /\ input = <<LBRACKET>> \o T_one \o <<RBRACE>>
    /\ rd.flags = STRICT
    /\ Tree(rd.root) = Denote("Array", 0, <<>>, <<S_one.tree>>, <<>>)
    /\ Len(rd.errors) = 1
    /\ rd.errors[1].msg = "Trying to close an array using the '}' (close-object) char"
    /\ rd.warnings = <<>>

-----------------------------------------------------------------------------
(* the message of a frame that the end of the input leaves open *)
MissingCloserText(r) ==
    IF IsArray(Parent(r)) THEN "']' missing at end of file" ELSE "'}' missing at end of file"

(* C14: at the end of the input every open frame, innermost first, adds    *)
(* the one diagnostic that names its closer, stores its pending value into *)
(* its parent and returns; with the MISSING flag set the diagnostic is a   *)
(* warning and no error is added.                                          *)
C14_EofUnwinds ==
    [][AtEof(rd) =>
          /\ Depth(rd') = Depth(rd) - 1
          /\ Depth(rd') > 0 => AtEof(rd')
          /\ "MISSING" \in rd.flags =>
                 /\ rd'.errors = rd.errors
                 /\ Len(rd.warnings) < rd.maxErrors =>
                        rd'.warnings = Append(rd.warnings,
                                           Msg("Warning", rd, MissingCloserText(rd), <<>>))]_vars

(* ---------------------------------------------------------------------- *)
(* the value an all-digit token with an optional sign denotes, as decimal  *)
(* text, and its place among the 64-bit limits                             *)
TokenOf(doc) == SubSeq(doc, 2, Len(doc) - 1)
Negative(t) == t[1] = MINUS
Magnitude(t) == StripZeros(IF t[1] \in {PLUS, MINUS} THEN Tail(t) ELSE t)
Denoted(t) ==
    IF Negative(t) /\ Magnitude(t) # ZeroText THEN <<MINUS>> \o Magnitude(t)
    ELSE Magnitude(t)
InUnsignedRange(t) == ~Negative(t) /\ ~TextGreater(Magnitude(t), ULongMaxText)
InSignedRange(t) ==
    IF Negative(t) THEN ~TextGreater(Magnitude(t), LLongMaxPlus1Text)
    ELSE ~TextGreater(Magnitude(t), LLongMaxText)

(* C15: when the document [t] with an integer token t has been parsed,     *)
(* Strtoull accepts t exactly when t has no '-' sign and its value is at   *)
(* most 2^64-1, Strtoll accepts t exactly when its value lies between      *)
(* -2^63 and 2^63-1, each returns exactly the value of t, never a          *)
(* wrapped-around one, and a token whose magnitude exceeds 2^64-1 is       *)
(* stored as a Double.                                                     *)
C15_ExactIntegers ==
    Done /\ input \in NumberDocs /\ TokenOf(input) \in IntegerTokens =>
        LET t == TokenOf(input)
        IN /\ Strtoull(t).ok <=> InUnsignedRange(t)
           /\ Strtoull(t).ok => Strtoull(t).val = Denoted(t)
           /\ Strtoll(t).ok <=> InSignedRange(t)
           /\ Strtoll(t).ok => Strtoll(t).val = Denoted(t)
           /\ TextGreater(Magnitude(t), ULongMaxText) =>
                  /\ Len(rd.root.items) = 1
                  /\ rd.root.items[1].kind = "Double"

(* ---------------------------------------------------------------------- *)
(* the unquoted token ReadValue() reads in r, and whether it is one of the *)
(* three literals in some letter case                                      *)
TokenAt(r) == ReadToken(r, Top(r).ch).buf
IsLiteral(s) == \E lit \in {S_null, S_true, S_false} : CmpNoCaseEq(s, lit)
Scalar(v) == [kind |-> v.kind, str |-> v.str]
IncorrectLiteral(r, o) ==
    /\ ~IsValid(Value(o))
    /\ o.warnings = r.warnings
    /\ Len(o.errors) = Len(r.errors) + 1
    /\ o.errors[Len(o.errors)].msg = LiteralIncorrect
    /\ o.errors[Len(o.errors)].arg = TokenAt(r)

(* C16: when ReadValue reads a token that is not one of the literals into  *)
(* an empty slot, the first byte fixes the conversions tried and the first *)
(* that succeeds decides: a digit gives Int, else UInt, else Double; '-'   *)
(* gives Int, else Double, never UInt; '+' gives UInt, else Double, never  *)
(* Int; any other first byte, and the failure of every conversion tried,   *)
(* adds exactly one 'literal is incorrect' error and leaves the slot       *)
(* Invalid.                                                                *)
C16_ConversionLadder ==
    [][AtValue(rd) /\ ~IsValid(Value(rd)) /\ ~IsLiteral(TokenAt(rd))
         /\ Len(rd.errors) < rd.maxErrors =>
         LET s == TokenAt(rd)
             ch == Top(rd).ch
             v == Scalar(Value(rd'))
             int == [kind |-> "Int", str |-> Strtoll(s).val]
             uint == [kind |-> "UInt", str |-> Strtoull(s).val]
             double == [kind |-> "Double", str |-> s]
             plain == rd'.errors = rd.errors /\ rd'.warnings = rd.warnings
         IN IF IsDigit(ch)
            THEN IF Strtoll(s).ok THEN v = int /\ plain
                 ELSE IF Strtoull(s).ok THEN v = uint /\ plain
                 ELSE IF ToDouble(s) THEN v = double /\ plain
                 ELSE IncorrectLiteral(rd, rd')
            ELSE IF ch = MINUS
            THEN /\ v.kind # "UInt"
                 /\ IF Strtoll(s).ok THEN v = int /\ plain
                    ELSE IF ToDouble(s) THEN v = double /\ plain
                    ELSE IncorrectLiteral(rd, rd')
            ELSE IF ch = PLUS
            THEN /\ v.kind # "Int"
                 /\ IF Strtoull(s).ok THEN v = uint /\ plain
                    ELSE IF ToDouble(s) THEN v = double /\ plain
                    ELSE IncorrectLiteral(rd, rd')
            ELSE IncorrectLiteral(rd, rd')]_vars

(* the examples of the ladder, read through a whole parse *)
LadderExamples ==
    { [text |-> <<MINUS>> \o LLongMaxPlus1Text, kind |-> "Int",
       str |-> <<MINUS>> \o LLongMaxPlus1Text],
      [text |-> LLongMaxText, kind |-> "Int", str |-> LLongMaxText],
      [text |-> LLongMaxPlus1Text, kind |-> "UInt", str |-> LLongMaxPlus1Text],
      [text |-> <<PLUS>> \o T_one, kind |-> "UInt", str |-> T_one],
      [text |-> <<MINUS>> \o T_one, kind |-> "Int", str |-> <<MINUS>> \o T_one] }

(* C16, examples: after the parse of [t] for each example token t the one  *)
(* item of the array has the kind and the value the ladder gives it        *)
C16_LadderExamples ==
    \A e \in LadderExamples :
        Done /\ input = <<LBRACKET>> \o e.text \o <<RBRACKET>> =>
            /\ Len(rd.root.items) = 1
            /\ Scalar(rd.root.items[1]) = [kind |-> e.kind, str |-> e.str]
            /\ rd.errors = <<>>

(* C16: the ladder at every ReadValue, and its examples *)
C16_Ladder == C16_ConversionLadder /\ []C16_LadderExamples

C16_Witness ==
    /\ Done /\ input = <<LBRACKET>> \o LLongMaxPlus1Text \o <<RBRACKET>>
    /\ Len(rd.root.items) = 1
    /\ Scalar(rd.root.items[1]) = [kind |-> "UInt", str |-> LLongMaxPlus1Text]
    /\ rd.errors = <<>>

(* ---------------------------------------------------------------------- *)
(* the three literals: their text, the kind and number they set, and the   *)
(* text of the diagnostic for another letter case                          *)
Literals ==
    { [text |-> S_null, kind |-> "Null", num |-> 0,
       msg |-> "the 'null' literal must be lowercase"],
      [text |-> S_true, kind |-> "Bool", num |-> 1,
       msg |-> "the 'true' literal must be lowercase"],
      [text |-> S_false, kind |-> "Bool", num |-> 0,
       msg |-> "the 'false' literal must be lowercase"] }
OneMore(before, after, msg) ==
    /\ Len(after) = Len(before) + 1
    /\ SubSeq(after, 1, Len(before)) = before
    /\ after[Len(after)].msg = msg

(* C17: when ReadValue reads null, true or false into an empty slot, the   *)
(* slot becomes Null or Bool with no diagnostic; when the token matches    *)
(* one of them only without regard to letter case, the slot becomes the    *)
(* same Null or Bool and exactly one diagnostic is added: a warning when   *)
(* CASE is set, an error when it is not (as in STRICT).                    *)
C17_LiteralCase ==
    [][AtValue(rd) /\ ~IsValid(Value(rd)) =>
         \A lit \in Literals :
             CmpNoCaseEq(TokenAt(rd), lit.text) =>
                 /\ Value(rd').kind = lit.kind
                 /\ lit.kind = "Bool" => Value(rd').num = lit.num
                 /\ IF TokenAt(rd) = lit.text
                    THEN rd'.errors = rd.errors /\ rd'.warnings = rd.warnings
                    ELSE IF "CASE" \in rd.flags
                    THEN /\ rd'.errors = rd.errors
                         /\ Len(rd.warnings) < rd.maxErrors =>
                                OneMore(rd.warnings, rd'.warnings, lit.msg)
                    ELSE /\ rd'.warnings = rd.warnings
                         /\ Len(rd.errors) < rd.maxErrors =>
                                OneMore(rd.errors, rd'.errors, lit.msg)]_vars

C17_Witness ==
    /\ Done /\ input = <<LBRACKET, 70, 97, 76, 83, 101, RBRACKET>>
    /\ rd.flags = STRICT
    /\ Len(rd.root.items) = 1
    /\ rd.root.items[1].kind = "Bool" /\ rd.root.items[1].num = 0
    /\ Len(rd.errors) = 1
    /\ rd.errors[1].msg = "the 'false' literal must be lowercase"
    /\ rd.warnings = <<>>

(* ---------------------------------------------------------------------- *)
(* the maximum container nesting of a text: the largest number of          *)
(* containers open at once, from the first opening byte to the byte that   *)
(* closes the outermost container.  Bytes are counted as they stand, so    *)
(* the count is the nesting of the text only when no comment and no        *)
(* discarded line hides some of them: when the text holds no '/'.          *)
RECURSIVE NestingFrom(_, _, _, _)
NestingFrom(doc, i, open, max) ==
    IF i > Len(doc) THEN max
    ELSE IF doc[i] \in {LBRACE, LBRACKET}
    THEN NestingFrom(doc, i + 1, open + 1, IF open + 1 > max THEN open + 1 ELSE max)
    ELSE IF doc[i] \in {RBRACE, RBRACKET} /\ open > 0
    THEN IF open = 1 THEN max ELSE NestingFrom(doc, i + 1, open - 1, max)
    ELSE NestingFrom(doc, i + 1, open, max)
Nesting(doc) == NestingFrom(doc, 1, 0, 0)
NoSlash(doc) == \A i \in 1..Len(doc) : doc[i] # SLASH

LevelBelowDepth == rd.level <= rd.depth
DepthGrows == [][rd'.depth >= rd.depth]_vars
DepthCoversNesting == Done /\ NoSlash(input) => rd.depth >= Nesting(input)

(* C18: in every state level <= depth; no step decreases depth; and when   *)
(* the parse of a text without comments has ended, depth is at least the   *)
(* maximum container nesting of the text.                                  *)
C18_LevelAndDepth == []LevelBelowDepth /\ DepthGrows /\ []DepthCoversNesting

C18_Witness ==
    /\ Done /\ input = <<LBRACKET, LBRACKET>> \o T_one \o <<RBRACKET, RBRACKET>>
    /\ Nesting(input) = 2
    /\ rd.depth = 2 /\ rd.level <= rd.depth

(* ---------------------------------------------------------------------- *)
(* C19: while DoRead runs, level is the number of active frames, and when  *)
(* the parse of a standard JSON text has ended, depth (the result of       *)
(* GetDepth) is the maximum container nesting of the text.                 *)
C19_LevelCountsFrames ==
    /\ rd.pc = "DoRead" => rd.level = Depth(rd)
    /\ Done /\ input \in {t.text : t \in StandardTexts} => rd.depth = Nesting(input)

(* ---------------------------------------------------------------------- *)
(* the line and the column after the bytes doc[i..n] have been consumed    *)
(* from line l, column c: an LF, and a CR with the LF behind it, start a   *)
(* new line at column 1; any other byte is one more column                 *)
RECURSIVE PositionAfter(_, _, _, _, _)
PositionAfter(doc, i, n, l, c) ==
    IF i > n THEN [line |-> l, col |-> c]
    ELSE IF doc[i] = LF THEN PositionAfter(doc, i + 1, n, l + 1, 1)
    ELSE IF doc[i] = CR /\ i < n /\ doc[i + 1] = LF
    THEN PositionAfter(doc, i + 2, n, l + 1, 1)
    ELSE PositionAfter(doc, i + 1, n, l, c + 1)
Position(r) == [line |-> r.lineNo, col |-> r.colNo]
Parsing == rd.pc # "Idle"

LineFromOne == Parsing => rd.lineNo >= 1 /\ rd.colNo >= 1
PositionCounts == Parsing => Position(rd) = PositionAfter(input, 1, rd.pos, 1, 1)
LineGrows == [][Parsing => rd'.lineNo >= rd.lineNo]_vars

(* C20: in every state of a parse the line and the column are at least 1,  *)
(* the line is 1 plus the number of LF consumed and never decreases, the   *)
(* column is 1 right after an LF or a CR+LF and one more for every other   *)
(* byte consumed, a CR without an LF behind it included.                   *)
C20_LineAndColumn == []LineFromOne /\ []PositionCounts /\ LineGrows

(* ---------------------------------------------------------------------- *)
(* the text with every LF replaced by CR+LF *)
RECURSIVE CrLf(_)
CrLf(doc) ==
    IF doc = <<>> THEN <<>>
    ELSE (IF doc[1] = LF THEN <<CR, LF>> ELSE <<doc[1]>>) \o CrLf(Tail(doc))
NoCr(doc) == \A i \in 1..Len(doc) : doc[i] # CR
HasLf(doc) == \E i \in 1..Len(doc) : doc[i] = LF

(* the value tree with the line number of every value *)
RECURSIVE LinedTree(_)
LinedTree(v) ==
    [kind |-> v.kind, num |-> v.num, str |-> v.str, lineNo |-> v.lineNo,
     items |-> [i \in 1..Len(v.items) |-> LinedTree(v.items[i])],
     members |-> [k \in DOMAIN v.members |-> LinedTree(v.members[k])]]
Outcome(r) ==
    [pc |-> r.pc, result |-> r.result, errors |-> r.errors, warnings |-> r.warnings,
     tree |-> LinedTree(r.root)]

LineOf(doc, i) == PositionAfter(doc, 1, i - 1, 1, 1).line
Places(doc, b) == {i \in 1..Len(doc) : doc[i] = b}
Only(doc, b) == CHOOSE i \in Places(doc, b) : TRUE

(* C22: when the parse of a text without comments has ended, the root      *)
(* carries the line of its opening bracket, and in an array whose only     *)
(* item is the only number 1 of the text, the item carries the line on     *)
(* which that token stands, not the line of a later comma or closer.       *)
C22_LineOfOwnText ==
    Done /\ NoSlash(input) /\ IsValid(rd.root) =>
        /\ rd.root.lineNo = LineOf(input, FirstStart(input))
        /\ /\ IsArray(rd.root) /\ Len(rd.root.items) = 1
           /\ Scalar(rd.root.items[1]) = [kind |-> "Int", str |-> T_one]
           /\ Cardinality(Places(input, DIGIT0 + 1)) = 1
           => rd.root.items[1].lineNo = LineOf(input, Only(input, DIGIT0 + 1))

(* ---------------------------------------------------------------------- *)
(* the quoted string at r as ReadString reads it into an empty slot: its   *)
(* decoded text, and whether the decoding adds a diagnostic of its own     *)
IntoEmptySlot(r) == ReadString(SetValue(r, JInvalid))
Decoded(r) == Value(IntoEmptySlot(r)).str
DecodesCleanly(r) ==
    /\ IsString(Value(IntoEmptySlot(r)))
    /\ IntoEmptySlot(r).errors = r.errors
    /\ IntoEmptySlot(r).warnings = r.warnings
Content(v) == [kind |-> v.kind, num |-> v.num, str |-> v.str]

(* C23: when a quoted string is read while the slot holds a string, the    *)
(* decoded text is appended to the string of the slot and exactly one      *)
(* MULTISTRING diagnostic is added, a warning when the flag is set and an  *)
(* error when it is not; when the slot holds another valid value, exactly  *)
(* one error is added and the slot keeps its value.                        *)
C23_MultiString ==
    [][AtString(rd) /\ IsValid(Value(rd)) /\ DecodesCleanly(rd) =>
         IF IsString(Value(rd))
         THEN /\ Content(Value(rd')) =
                   [kind |-> "String", num |-> Value(rd).num,
                    str |-> Value(rd).str \o Decoded(rd)]
              /\ IF "MULTISTRING" \in rd.flags
                 THEN /\ rd'.errors = rd.errors
                      /\ Len(rd.warnings) < rd.maxErrors =>
                             OneMore(rd.warnings, rd'.warnings,
                                     "Multiline strings are not allowed by JSON syntax")
                 ELSE /\ rd'.warnings = rd.warnings
                      /\ Len(rd.errors) < rd.maxErrors =>
                             OneMore(rd.errors, rd'.errors,
                                     "Multiline strings are not allowed by JSON syntax")
         ELSE /\ Content(Value(rd')) = Content(Value(rd))
              /\ rd'.warnings = rd.warnings
              /\ Len(rd.errors) < rd.maxErrors =>
                     OneMore(rd.errors, rd'.errors,
                             "String value '%s' cannot follow another value")]_vars

C23_Witness ==
    /\ Done /\ input = <<LBRACKET>> \o T_a \o T_a \o <<RBRACKET>>
    /\ "MULTISTRING" \in rd.flags
    /\ Len(rd.root.items) = 1
    /\ Content(rd.root.items[1]) = [kind |-> "String", num |-> 0, str |-> <<97, 97>>]
    /\ Len(rd.warnings) = 1 /\ rd.errors = <<>>

(* ---------------------------------------------------------------------- *)
(* C24: after the parse of { /*hi*/ "x": 1 } with ALLOW_COMMENTS and       *)
(* STORE_COMMENTS the root is an object whose member x is 1, the comment   *)
(* /*hi*/ is attached Before to the value of x and to no other value, and  *)
(* exactly one warning and no error is reported.                           *)
C24_CommentBeforeMember ==
    Done /\ input = CommentedMember(<<SP>>) /\ rd.flags = CommentsBefore =>
        /\ IsObject(rd.root) /\ DOMAIN rd.root.members = {<<120>>}
        /\ Scalar(rd.root.members[<<120>>]) = [kind |-> "Int", str |-> T_one]
        /\ rd.root.members[<<120>>].comments = <<[text |-> T_hi, pos |-> "Before"]>>
        /\ rd.root.comments = <<>>
        /\ Len(rd.warnings) = 1 /\ rd.errors = <<>>

(* ---------------------------------------------------------------------- *)
(* the hex digits 0-9 and A-F with their values, and the bytes and the     *)
(* number of rejected pairs of a text of character pairs                   *)
IsUpperHex(c) == (c >= DIGIT0 /\ c <= DIGIT9) \/ (c >= 65 /\ c <= 70)
HexValue(c) == IF c <= DIGIT9 THEN c - DIGIT0 ELSE c - 55
IsHexPair(t) == IsUpperHex(t[1]) /\ IsUpperHex(t[2])
RECURSIVE Blob(_)
Blob(t) ==
    IF Len(t) < 2 THEN <<>>
    ELSE (IF IsHexPair(t) THEN <<16 * HexValue(t[1]) + HexValue(t[2])>> ELSE <<>>)
         \o Blob(SubSeq(t, 3, Len(t)))
RECURSIVE Rejected(_)
Rejected(t) ==
    IF Len(t) < 2 THEN 0
    ELSE (IF IsHexPair(t) THEN 0 ELSE 1) + Rejected(SubSeq(t, 3, Len(t)))
MemoryBuffOf(doc) == SubSeq(doc, 3, Len(doc) - 2)

(* C25: after the parse of ['t'] for a text t of character pairs, the item *)
(* is the memory buffer of the bytes 16*hi + lo of the pairs of t whose    *)
(* two characters are in 0-9 or A-F, every other pair adds no byte and is  *)
(* counted in the one error on invalid digits, and with MEMORYBUFF set     *)
(* exactly one warning is added and no other error.                        *)
C25_HexPairs ==
    Done /\ input \in MemoryBuffDocs =>
        LET t == MemoryBuffOf(input)
        IN /\ Len(rd.root.items) = 1
           /\ Scalar(rd.root.items[1]) = [kind |-> "MemBuf", str |-> Blob(t)]
           /\ "MEMORYBUFF" \in rd.flags =>
                  /\ Len(rd.warnings) = 1
                  /\ IF Rejected(t) = 0 THEN rd.errors = <<>>
                     ELSE /\ Len(rd.errors) = 1
                          /\ rd.errors[1].arg = <<Rejected(t)>>

(* ---------------------------------------------------------------------- *)
(* a closer is read while the frame holds no key and no valid value *)
AtCloser(r) == AtCloseObject(r) \/ AtCloseArray(r)
NothingPending(r) == Top(r).key = <<>> /\ ~IsValid(Value(r))
ParentAfter(r, o) == SlotValue(o, Depth(r) - 1)

KeyOrValueMissing == "key or value is missing for JSON value"
StrictMode(r) == r.flags \cap ToleranceFlags = {}

(* C27, as stated: a ',' read while the frame holds no key and no valid    *)
(* value adds one error in strict mode and adds no error when tolerance    *)
(* flags are set.                                                          *)
C27_EmptyCommaByMode ==
    [][AtComma(rd) /\ NothingPending(rd) /\ Len(rd.errors) < rd.maxErrors =>
         IF StrictMode(rd) THEN OneMore(rd.errors, rd'.errors, KeyOrValueMissing)
         ELSE rd'.errors = rd.errors]_vars

(* C27, amended: a ',' read while the frame holds no key and no valid      *)
(* value adds exactly one error, 'key or value is missing for JSON value', *)
(* under every flag set; it adds no warning and nothing to the parent.     *)
C27_EmptyCommaIsError ==
    [][AtComma(rd) /\ NothingPending(rd) =>
         /\ rd'.warnings = rd.warnings
         /\ Tree(ParentAfter(rd, rd')) = Tree(Parent(rd))
         /\ Len(rd.errors) < rd.maxErrors =>
                OneMore(rd.errors, rd'.errors, KeyOrValueMissing)]_vars

C27_Witness ==
    /\ Done /\ input = <<LBRACKET, COMMA, RBRACKET>>
    /\ rd.flags = Extensions
    /\ Len(rd.errors) = 1 /\ rd.errors[1].msg = KeyOrValueMissing
    /\ rd.warnings = <<>>
    /\ IsArray(rd.root) /\ rd.root.items = <<>>

(* ---------------------------------------------------------------------- *)
(* the steps that call StoreValue, and the members of a value as trees *)
AtStore(r) == AtComma(r) \/ AtCloser(r) \/ AtEof(r)
MemberTrees(v) == [k \in DOMAIN v.members |-> Tree(v.members[k])]
WithMember(v, key, t) ==
    [k \in DOMAIN v.members \cup {key} |-> IF k = key THEN t ELSE Tree(v.members[k])]
ErrorText(r) ==
    IF IsValid(Value(r))
    THEN "cannot store the value: 'key' is missing for JSON object type"
    ELSE "cannot store the value: 'value' is missing for JSON object type"

(* C28: when StoreValue is called in the frame of an object, it inserts    *)
(* parent[key] = value and adds no error exactly when the key is not empty *)
(* and the value is valid; when only one of the two is present it adds     *)
(* exactly one error and leaves the members as they are; in every case the *)
(* pending value is Invalid, without comments, when it returns; and after  *)
(* the step of a ',' the pending key is empty and the value Invalid.       *)
C28_ObjectStore ==
    [][AtStore(rd) /\ IsObject(Parent(rd)) =>
         LET s == StoreValue(rd, Top(rd).ch)
             key == Top(rd).key
             p == ParentAfter(rd, s)
         IN /\ ~IsValid(Value(s)) /\ Value(s).comments = <<>>
            /\ s.warnings = rd.warnings
            /\ IF key # <<>> /\ IsValid(Value(rd))
               THEN /\ MemberTrees(p) = WithMember(Parent(rd), key, Tree(Value(rd)))
                    /\ s.errors = rd.errors
               ELSE /\ MemberTrees(p) = MemberTrees(Parent(rd))
                    /\ (key # <<>> \/ IsValid(Value(rd)))
                         /\ Len(rd.errors) < rd.maxErrors =>
                           OneMore(rd.errors, s.errors, ErrorText(rd))
            /\ AtComma(rd) =>
                   /\ rd'.errors = s.errors /\ rd'.warnings = s.warnings
                   /\ MemberTrees(ParentAfter(rd, rd')) = MemberTrees(p)
                   /\ Top(rd').key = <<>> /\ ~IsValid(Value(rd'))]_vars

C28_Witness ==
    /\ Done /\ input = <<LBRACE>> \o T_one \o <<RBRACE>>
    /\ IsObject(rd.root) /\ DOMAIN rd.root.members = {}
    /\ Len(rd.errors) = 1
    /\ rd.errors[1].msg = "cannot store the value: 'key' is missing for JSON object type"

(* ---------------------------------------------------------------------- *)
ColonErrors ==
    { "':' can only used in object's values",
      "':' follows a value which is not of type 'string'",
      "':' not allowed where a 'name' string was already available" }

(* C29: on ':' the text of the pending value becomes the key and the       *)
(* pending value becomes Invalid, with no diagnostic, exactly when the     *)
(* parent is an object, the pending value is a string and the key is       *)
(* empty; in every other case exactly one error is added and the key and   *)
(* the pending value stay as they are.                                     *)
C29_ColonPromotesKey ==
    [][AtColon(rd) =>
         /\ rd'.warnings = rd.warnings
         /\ IF IsObject(Parent(rd)) /\ IsString(Value(rd)) /\ Top(rd).key = <<>>
            THEN /\ Top(rd').key = Value(rd).str
                 /\ ~IsValid(Value(rd'))
                 /\ rd'.errors = rd.errors
            ELSE /\ Top(rd').key = Top(rd).key
                 /\ Content(Value(rd')) = Content(Value(rd))
                 /\ Len(rd.errors) < rd.maxErrors =>
                        \E m \in ColonErrors : OneMore(rd.errors, rd'.errors, m)]_vars

C29_Witness ==
    /\ Done /\ input = <<LBRACKET>> \o T_a \o <<COLON>>
    /\ "MISSING" \notin rd.flags
    /\ Len(rd.errors) >= 1
    /\ rd.errors[1].msg = "':' can only used in object's values"
    /\ Len(rd.root.items) = 1
    /\ Content(rd.root.items[1]) = [kind |-> "String", num |-> 0, str |-> <<97>>]

(* ---------------------------------------------------------------------- *)
(* the memory buffer at r read into an empty slot adds the diagnostic of   *)
(* its entry and no other                                                  *)
BuffIntoEmptySlot(r) == ReadMemoryBuff(SetValue(r, JInvalid))
BuffDecodesCleanly(r) ==
    /\ IsMemoryBuff(Value(BuffIntoEmptySlot(r)))
    /\ Len(BuffIntoEmptySlot(r).errors) + Len(BuffIntoEmptySlot(r).warnings) =
           Len(r.errors) + Len(r.warnings) + 1
Diagnostics(r) == Len(r.errors) + Len(r.warnings)
LastError(r) == r.errors[Len(r.errors)].msg

-----------------------------------------------------------------------------
(* the four characters after \u in a document of StringDocs, the code unit *)
(* four hex digits denote, and the string item the parse stored            *)
UesOf(doc) == SubSeq(doc, 5, 8)
AllHex(h) == \A i \in 1..4 : IsHexDigit(h[i])
CodeUnit(h) == ((HexVal(h[1]) * 16 + HexVal(h[2])) * 16 + HexVal(h[3])) * 16 + HexVal(h[4])
ClosedUes(doc) == doc \in StringDocs /\ Len(doc) = 10 /\ doc[3] = BACKSLASH
StoredString(r) == r.root.items[1].str

(* C31: a string that holds \u and four characters gets the UTF-8 bytes of *)
(* the code unit, with no error, exactly when the four are all hex digits; *)
(* when one of them is no hex digit the 'Invalid Unicode Escaped Sequence' *)
(* error is added and no byte is appended.                                 *)
C31_UnicodeEscape ==
    Done /\ ClosedUes(input) =>
        /\ Len(rd.root.items) = 1
        /\ IF AllHex(UesOf(input))
           THEN /\ rd.errors = <<>>
                /\ StoredString(rd) = EncodeUTF8(CodeUnit(UesOf(input)))
                /\ UesOf(input) = <<48, 48, 69, 57>> => StoredString(rd) = <<195, 169>>
           ELSE /\ StoredString(rd) = <<>>
                /\ Len(rd.errors) = 1
                /\ rd.errors[1].msg = "Invalid Unicode Escaped Sequence"

(* a document of StringDocs whose string of ASCII letters is cut by the    *)
(* end of the input                                                        *)
OpenAscii(doc) ==
    doc \in StringDocs /\ doc[Len(doc)] # RBRACKET /\ doc[3] # BACKSLASH

(* C32: the buffer of ReadString holds only bytes read from the input or   *)
(* produced by an escape: when the input ends before the closing quote the *)
(* string stored is exactly the bytes read after the opening quote, and no *)
(* 'UTF-8 stream is invalid' error is added.                               *)
C32_UnterminatedString ==
    Done /\ OpenAscii(input) =>
        /\ Len(rd.root.items) = 1
        /\ StoredString(rd) = SubSeq(input, 3, Len(input))
        /\ \A i \in 1..Len(rd.errors) :
              rd.errors[i].msg # "String value: the UTF-8 stream is invalid"

(* the place of the first quote after place p of a document *)
QuotesAfter(doc, p) == {i \in (p + 1)..Len(doc) : doc[i] = SQUOTE}
FirstQuoteAfter(doc, p) ==
    CHOOSE i \in QuotesAfter(doc, p) : \A j \in QuotesAfter(doc, p) : i <= j

(* C33: a memory buffer ends at the first quote after its opening quote,   *)
(* whatever the number of characters between the two: the step that reads  *)
(* the buffer consumes the input up to the byte after that quote and no    *)
(* further, and that byte is the one DoRead dispatches next.               *)
C33_MemoryBuffEnds ==
    [][AtMemoryBuff(rd) /\ QuotesAfter(input, rd.pos) # {} =>
         /\ InDoRead(rd')
         /\ Top(rd').ch = At(input, FirstQuoteAfter(input, rd.pos) + 1)
         /\ rd'.pos = IF FirstQuoteAfter(input, rd.pos) < Len(input)
                      THEN FirstQuoteAfter(input, rd.pos) + 1
                      ELSE Len(input)]_vars

(* the reader stands on the '/' of a block comment that is closed: the     *)
(* places of the "*/" after the "/*", and the first of them                *)
Closers(doc, p) ==
    {i \in (p + 2)..(Len(doc) - 1) : doc[i] = STAR /\ doc[i + 1] = SLASH}
FirstCloser(doc, p) == CHOOSE i \in Closers(doc, p) : \A j \in Closers(doc, p) : i <= j
AtBlockComment ==
    /\ AtComment(rd) \/ AtGetStartComment(rd)
    /\ At(input, rd.pos + 1) = STAR
    /\ Closers(input, rd.pos) # {}

(* C34: for a block comment the text SkipComment leaves in m_comment is    *)
(* the text of the input from its "/*" to its "*/", byte for byte,         *)
(* m_commentLine is the line the comment starts on, and exactly one        *)
(* ALLOW_COMMENTS diagnostic is added.                                     *)
C34_BlockCommentText ==
    AtBlockComment /\ Len(rd.errors) < rd.maxErrors /\ Len(rd.warnings) < rd.maxErrors =>
        /\ SkipComment(rd).comment =
              SubSeq(input, rd.pos, FirstCloser(input, rd.pos) + 1)
        /\ SkipComment(rd).commentLine = rd.lineNo
        /\ Diagnostics(SkipComment(rd)) = Diagnostics(rd) + 1

(* the number of comments held by a value and the values inside it, and by *)
(* all the values the reader holds                                         *)
RECURSIVE SumOver(_, _)
SumOver(f, S) ==
    IF S = {} THEN 0
    ELSE LET x == CHOOSE y \in S : TRUE IN f[x] + SumOver(f, S \ {x})

RECURSIVE CommentsIn(_)
CommentsIn(v) ==
    Len(v.comments)
    + SumOver([i \in 1..Len(v.items) |-> CommentsIn(v.items[i])], 1..Len(v.items))
    + SumOver([k \in DOMAIN v.members |-> CommentsIn(v.members[k])], DOMAIN v.members)

Values(r) == [d \in 0..Depth(r) |-> SlotValue(r, d)]
AllComments(r) == SumOver([d \in 0..Depth(r) |-> CommentsIn(SlotValue(r, d))], 0..Depth(r))

AtAnyComment(r) == AtComment(r) \/ AtGetStartComment(r)
OnLine(r, ref) == ref # NullRef /\ Deref(r, ref).lineNo = r.commentLine
FirstOnLine(r) ==
    IF OnLine(r, r.current) THEN r.current
    ELSE IF OnLine(r, r.next) THEN r.next
    ELSE IF OnLine(r, r.lastStored) THEN r.lastStored
    ELSE NullRef
InlineComment(r) == [text |-> r.comment, pos |-> "Inline"]

(* C35: in a step that reads a comment, StoreComment changes no value and  *)
(* adds no diagnostic when STORE_COMMENTS is off; when it is on, at most   *)
(* one comment is added to all the values together, and when the line of   *)
(* m_current, m_next or m_lastStored (tested in this order) is             *)
(* m_commentLine the comment goes Inline to the first of them that         *)
(* matches, with no error; in every case m_comment is empty afterwards.    *)
C35_StoreComment ==
    [][AtAnyComment(rd) =>
         /\ rd'.comment = <<>>
         /\ "STORE_COMMENTS" \notin rd.flags =>
               /\ Values(rd') = Values(rd)
               /\ rd'.errors = SkipComment(rd).errors
               /\ rd'.warnings = SkipComment(rd).warnings
         /\ "STORE_COMMENTS" \in rd.flags =>
               /\ AllComments(rd') <= AllComments(rd) + 1
               /\ Depth(rd') = Depth(rd)
               /\ FirstOnLine(SkipComment(rd)) # NullRef =>
                     /\ Deref(rd', FirstOnLine(SkipComment(rd))).comments =
                           Append(Deref(rd, FirstOnLine(SkipComment(rd))).comments,
                                  InlineComment(SkipComment(rd)))
                     /\ AllComments(rd') = AllComments(rd) + 1
                     /\ rd'.errors = SkipComment(rd).errors
                     /\ rd'.warnings = SkipComment(rd).warnings]_vars

C35_Witness ==
    /\ Done /\ input = CommentedMember(<<SP>>) /\ rd.flags = CommentsBefore
    /\ rd.comment = <<>>
    /\ Len(rd.root.comments) = 1 /\ rd.root.comments[1].pos = "Inline"
    /\ AllComments(rd) = 1

(* the value the claim gives a comment that matches no line under          *)
(* COMMENTS_AFTER: m_current when it is set, is not the parent of the      *)
(* frame and is valid, else m_lastStored                                   *)
FrameParent(r) == IF InDoRead(r) THEN ParentRef(r) ELSE NullRef
CurrentUsable(r) ==
    r.current # NullRef /\ r.current # FrameParent(r) /\ IsValid(Deref(r, r.current))
AfterTarget(r) == IF CurrentUsable(r) THEN r.current ELSE r.lastStored
Gains(r, o, ref, text, position) ==
    Deref(o, ref).comments = Append(Deref(r, ref).comments, [text |-> text, pos |-> position])
ErrorIfRoom(s, o, msg) ==
    Len(s.errors) < s.maxErrors => OneMore(s.errors, o.errors, msg)

(* C36: with STORE_COMMENTS, a comment that matches no line is attached    *)
(* After to m_current under COMMENTS_AFTER, or to m_lastStored when        *)
(* m_current is the parent of the frame or is not valid, with an error     *)
(* only when neither can take it; without COMMENTS_AFTER it is attached    *)
(* Before to m_next, with an error when m_next is null.                    *)
C36_CommentFallback ==
    [][AtAnyComment(rd) /\ "STORE_COMMENTS" \in rd.flags
         /\ SkipComment(rd).comment # <<>>
         /\ FirstOnLine(SkipComment(rd)) = NullRef =>
         IF "COMMENTS_AFTER" \in rd.flags
         THEN IF AfterTarget(rd) # NullRef
              THEN /\ Gains(rd, rd', AfterTarget(rd), SkipComment(rd).comment, "After")
                   /\ rd'.errors = SkipComment(rd).errors
              ELSE /\ Values(rd') = Values(rd)
                   /\ ErrorIfRoom(SkipComment(rd), rd',
                         "Cannot find a value for storing the comment (flag AFTER)")
         ELSE IF rd.next # NullRef
              THEN /\ Gains(rd, rd', rd.next, SkipComment(rd).comment, "Before")
                   /\ rd'.errors = SkipComment(rd).errors
              ELSE /\ Values(rd') = Values(rd)
                   /\ ErrorIfRoom(SkipComment(rd), rd',
                         "Cannot find a value for storing the comment (flag BEFORE)")]_vars

(* no array in a value holds an item that is not valid *)
RECURSIVE ValidItems(_)
ValidItems(v) ==
    /\ IsArray(v) => \A i \in 1..Len(v.items) : IsValid(v.items[i])
    /\ \A i \in 1..Len(v.items) : ValidItems(v.items[i])
    /\ \A k \in DOMAIN v.members : ValidItems(v.members[k])

ArrayStoreErrors ==
    { "cannot store the item: 'key' ('%s') is not permitted in JSON array type",
      "cannot store the item: 'value' is missing for JSON array type" }

(* C37: in every frame whose parent is an array the pending key is empty;  *)
(* no array holds an item that is not valid, and neither the 'key is not   *)
(* permitted in JSON array type' error nor the 'value is missing for JSON  *)
(* array type' error is ever added.                                        *)
C37_ArrayKeyEmpty ==
    /\ \A d \in 1..Depth(rd) : IsArray(SlotValue(rd, d - 1)) => rd.stack[d].key = <<>>
    /\ \A d \in 0..Depth(rd) : ValidItems(SlotValue(rd, d))
    /\ \A i \in 1..Len(rd.errors) : rd.errors[i].msg \notin ArrayStoreErrors

C37_Witness ==
    /\ Done /\ input = <<LBRACKET>> \o T_a \o <<COLON>>
    /\ Len(rd.errors) >= 1 /\ rd.errors[1].msg = "':' can only used in object's values"
    /\ Len(rd.root.items) = 1 /\ rd.root.items[1].str = <<97>>

SignOnly == { <<PLUS>>, <<MINUS>> }

KeyMissing == "cannot store the value: 'key' is missing for JSON object type"
AtEmptyName(r) ==
    /\ AtColon(r) /\ IsObject(Parent(r))
    /\ IsString(Value(r)) /\ Value(r).str = <<>> /\ Top(r).key = <<>>
AtStoreOfUnnamed(r) ==
    /\ InDoRead(r) /\ IsObject(Parent(r)) /\ Top(r).key = <<>> /\ IsValid(Value(r))
    /\ AtComma(r) \/ AtCloseObject(r) \/ AtCloseArray(r) \/ AtEof(r)

(* C39: a member whose name is the empty string is never stored.  The ':'  *)
(* after the empty string leaves the key empty and adds no error; the      *)
(* StoreValue at the next ',', closer or end of input adds the "'key' is   *)
(* missing" error (after the error of a missing closer, at the end of the  *)
(* input) and leaves the parent as it is; the parse of {"":1 ... ends with *)
(* no member of the empty name and with that error.                        *)
C39_EmptyName ==
    /\ [][AtEmptyName(rd) =>
            /\ Top(rd').key = <<>>
            /\ ~IsValid(Value(rd'))
            /\ rd'.errors = rd.errors]_vars
    /\ [][AtStoreOfUnnamed(rd) =>
            /\ Tree(ParentAfter(rd, rd')) = Tree(Parent(rd))
            /\ Len(rd.errors) + 1 < rd.maxErrors =>
                  \E i \in (Len(rd.errors) + 1)..Len(rd'.errors) :
                      rd'.errors[i].msg = KeyMissing]_vars
    /\ [](Done /\ input \in EmptyNameDocs =>
            /\ DOMAIN rd.root.members = IF Len(input) > 6 THEN {Key(1)} ELSE {}
            /\ Len(input) > 5 => rd.errors[1].msg = KeyMissing
            /\ rd.maxErrors = DefaultMaxErrors =>
                  \E i \in 1..Len(rd.errors) : rd.errors[i].msg = KeyMissing)

C39_Witness ==
    /\ Done /\ input = <<LBRACE, DQUOTE, DQUOTE, COLON>> \o T_one \o <<RBRACE>>
    /\ rd.root.members = <<>>
    /\ Len(rd.errors) = 1 /\ rd.errors[1].msg = KeyMissing

=============================================================================
